---- MODULE Spec2Model ----
(***************************************************************************)
(* mkwineprefix: create_wine_prefix (src/mkwineprefix/prefix.py) as a      *)
(* state machine.  One run of create_wine_prefix is a linear walk over the *)
(* steps of the function; every sp.run call appends one record to `calls`. *)
(* Text that the code orders, filters or formats is handled through its    *)
(* code points (Ord), the way Python's str does.                           *)
(***************************************************************************)
EXTENDS Integers, Sequences, FiniteSets, TLC

VARIABLES
    pc,          \* position inside create_wine_prefix
    req,         \* keyword arguments of the call (immutable during the run)
    environ,     \* os.environ of the process
    fs0,         \* filesystem at the moment of the call
    fs,          \* filesystem now
    env,         \* the `env` dict built at prefix.py:258 (<<>> before that)
    tricks_list, \* local variable tricks_list
    calls,       \* sp.run invocations issued so far, in order
    iter,        \* items still to visit in the loop being executed
    host,        \* host facts read so far: set iteration order, byte order
    warnings,    \* log.warning messages so far
    dbops,       \* sqlite3 operations so far
    result,      \* "none" while running, "returned", or the exception raised
    lf,          \* font encoder: input, and struct.pack output once encoded
    db0,         \* catalog database as the run found it (empty until it is read)
    db,          \* catalog database now
    cli,         \* the command line of main, and what main has printed and exited with
    prior        \* what an earlier run from the same inputs did (for comparing runs)

vars == <<pc, req, environ, fs0, fs, env, tricks_list, calls, iter, host,
          warnings, dbops, result, lf, db0, db, cli, prior>>

-----------------------------------------------------------------------------
(* Bounds of the model *)

\* longest caller-supplied tricks list
MaxTricks == 2
\* how many switches a request that is near "all off" may turn on
MaxFlagDeviation == 1
\* distance of the non-default DPI inputs from DEFAULT_DPI and from 0
DpiDelta == 24
\* number of alternative iteration orders of a Python set, minus one
MaxHashSeed == 1

-----------------------------------------------------------------------------
(* Text helpers *)

RECURSIVE SeqLess(_, _)
\* Python's str.__lt__ on two code-point sequences
SeqLess(a, b) ==
    IF a = <<>> THEN b # <<>>
    ELSE IF b = <<>> THEN FALSE
    ELSE IF Head(a) # Head(b) THEN Head(a) < Head(b)
    ELSE SeqLess(Tail(a), Tail(b))

\* ord() of every character of the strings the winetricks arguments are built of
Ord ==
    "corefonts" :> <<99, 111, 114, 101, 102, 111, 110, 116, 115>> @@
    "dxvk" :> <<100, 120, 118, 107>> @@
    "isolate_home" :> <<105, 115, 111, 108, 97, 116, 101, 95, 104, 111, 109, 101>> @@
    "sandbox" :> <<115, 97, 110, 100, 98, 111, 120>> @@
    "vd=" :> <<118, 100, 61>> @@
    "vd=800x600" :> <<118, 100, 61, 56, 48, 48, 120, 54, 48, 48>> @@
    "win11" :> <<119, 105, 110, 49, 49>> @@
    "win10" :> <<119, 105, 110, 49, 48>> @@
    "vista" :> <<118, 105, 115, 116, 97>> @@
    "win2k3" :> <<119, 105, 110, 50, 107, 51>> @@
    "win7" :> <<119, 105, 110, 55>> @@
    "win8" :> <<119, 105, 110, 56>> @@
    "winxp" :> <<119, 105, 110, 120, 112>> @@
    "win81" :> <<119, 105, 110, 56, 49>> @@
    "win2k" :> <<119, 105, 110, 50, 107>> @@
    "win98" :> <<119, 105, 110, 57, 56>> @@
    "win95" :> <<119, 105, 110, 57, 53>>

\* s < t for Python strings
StrLess(s, t) == SeqLess(Ord[s], Ord[t])

\* s.startswith(p)
StartsWith(s, p) ==
    /\ Len(Ord[s]) >= Len(Ord[p])
    /\ SubSeq(Ord[s], 1, Len(Ord[p])) = Ord[p]

RECURSIVE Digits(_)
\* decimal digits of a natural number, most significant first
Digits(n) ==
    LET d == <<"0", "1", "2", "3", "4", "5", "6", "7", "8", "9">>[(n % 10) + 1]
    IN IF n < 10 THEN d ELSE Digits(n \div 10) \o d

\* str(n) for a Python int
Str(n) == IF n < 0 THEN "-" \o Digits(0 - n) ELSE Digits(n)

RECURSIVE SortedSeq(_)
\* sorted(S) for a set of strings
SortedSeq(S) ==
    IF S = {} THEN <<>>
    ELSE LET m == CHOOSE x \in S : \A y \in S \ {x} : StrLess(x, y)
         IN <<m>> \o SortedSeq(S \ {m})

\* set(seq)
ToSet(seq) == {seq[i] : i \in 1..Len(seq)}

-----------------------------------------------------------------------------
(* Module-level constants of prefix.py and _windows.py *)

DEFAULT_DPI == 96
LF_FULLFACESIZE == 64
FW_NORMAL == 400
FW_BOLD == 700
DEFAULT_CHARSET == 1
OUT_DEFAULT_PRECIS == 0
CLIP_DEFAULT_PRECIS == 0
DEFAULT_QUALITY == 0
VARIABLE_PITCH == 2
FF_SWISS == 32

\* values of the Weight enumeration
WeightValues == {0, 100, 200, 300, 400, 500, 600, 700, 800, 900}

WINETRICKS_VERSION_MAPPING ==
    "11" :> "win11" @@ "10" :> "win10" @@ "vista" :> "vista" @@
    "2k3" :> "win2k3" @@ "7" :> "win7" @@ "8" :> "win8" @@ "xp" :> "winxp" @@
    "81" :> "win81" @@ "2k" :> "win2k" @@ "98" :> "win98" @@ "95" :> "win95"

\* WINETRICKS_VERSION_MAPPING.values()
VersionKeywords == {WINETRICKS_VERSION_MAPPING[k] : k \in DOMAIN WINETRICKS_VERSION_MAPPING}

\* the set literal, in the order it is written
NOTO_FONT_REPLACEMENTS == <<
    "Arial Baltic,186", "Arial CE,238", "Arial CYR,204", "Arial Greek,161",
    "Arial TUR,162", "Courier New Baltic,186", "Courier New CE,238",
    "Courier New CYR,204", "Courier New Greek,161", "Courier New TUR,162",
    "Helv", "Helvetica", "MS Shell Dlg", "MS Shell Dlg 2", "MS Sans Serif",
    "Segoe UI", "System", "Tahoma", "Times", "Times New Roman Baltic,186",
    "Times New Roman CE,238", "Times New Roman CYR,204",
    "Times New Roman Greek,161", "Times New Roman TUR,162", "Tms Rmn", "Verdana" >>

\* the set literal, in the order it is written
NOTO_REGISTRY_ENTRIES == <<"Caption", "Icon", "Menu", "Message", "SmCaption", "Status">>

NVAPI_X32 == <<"nvcuda", "nvcuvid", "nvencodeapi", "nvapi">>
NVAPI_X64 == <<"nvcuda", "nvoptix", "nvcuvid", "nvencodeapi64", "nvapi64", "nvofapi64">>

\* the boolean keyword arguments of create_wine_prefix
FlagNames == {"_32bit", "asio", "disable_explorer", "disable_services", "dxva_vaapi",
              "dxvk_nvapi", "eax", "gtk", "no_associations", "no_gecko", "no_mono",
              "no_xdg", "noto_sans", "sandbox", "tmpfs", "winrt_dark"}

-----------------------------------------------------------------------------
(* Paths and the filesystem.  A path is the sequence of its components.    *)

\* the account the process runs as
LoginName == "user"
HomeDir == <<"home", LoginName>>
TmpDir == <<"tmp">>
\* Path.home() / '.local/share/wineprefixes'
DefaultRoot == HomeDir \o <<".local", "share", "wineprefixes">>

\* pathlib's parse of the prefix_name strings used as inputs
NameParts ==
    "games" :> [abs |-> FALSE, parts |-> <<"games">>] @@
    "my games" :> [abs |-> FALSE, parts |-> <<"my games">>] @@
    "." :> [abs |-> FALSE, parts |-> <<>>] @@
    "/tmp" :> [abs |-> TRUE, parts |-> <<"tmp">>]

\* root / name : an absolute right operand replaces the left one, '.' is dropped
PathJoin(root, name) ==
    IF NameParts[name].abs THEN NameParts[name].parts
    ELSE root \o NameParts[name].parts

\* str(path)
RECURSIVE PathStr(_)
PathStr(p) == IF p = <<>> THEN "" ELSE PathStr(SubSeq(p, 1, Len(p) - 1)) \o "/" \o p[Len(p)]

\* the path and all its ancestors
Ancestors(p) == {SubSeq(p, 1, n) : n \in 0..Len(p)}

\* Path.exists()
Exists(f, p) == p \in f.dirs \/ p \in f.files \/ p \in f.links

\* Path.mkdir(parents=True, exist_ok=True): "ok", or the OSError it raises
MkdirOutcome(f, p) ==
    IF p \in f.dirs THEN "ok"
    ELSE IF p \in f.files THEN "FileExistsError"
    ELSE IF Ancestors(p) \cap f.files # {} THEN "NotADirectoryError"
    ELSE "ok"

\* the filesystem after Path.mkdir(parents=True, exist_ok=True)
Mkdir(f, p) ==
    IF MkdirOutcome(f, p) = "ok" THEN [f EXCEPT !.dirs = @ \cup Ancestors(p)] ELSE f

\* directories every host has
BaseDirs == Ancestors(HomeDir) \cup Ancestors(TmpDir)

-----------------------------------------------------------------------------
(* The font descriptor: struct.pack('=5l8B64B', *LOGFONTW(...), *face_name) *)

\* ord() of every character of the face names used as inputs
FaceOrd ==
    "Noto Sans" :> <<78, 111, 116, 111, 32, 83, 97, 110, 115>> @@
    "Arial" :> <<65, 114, 105, 97, 108>> @@
    "Times New Roman Baltic Extended,186" :> <<84, 105, 109, 101, 115, 32, 78, 101, 119, 32, 82, 111, 109, 97, 110, 32, 66, 97, 108, 116, 105, 99, 32, 69, 120, 116, 101, 110, 100, 101, 100, 44, 49, 56, 54>>

\* one code point in UTF-16, low byte first
Utf16leUnit(c) ==
    IF c < 65536 THEN <<c % 256, c \div 256>>
    ELSE LET v == c - 65536
             hi == 55296 + (v \div 1024)
             lo == 56320 + (v % 1024)
         IN <<hi % 256, hi \div 256, lo % 256, lo \div 256>>

RECURSIVE Utf16le(_)
\* str.encode('utf-16le') on a code-point sequence
Utf16le(cs) == IF cs = <<>> THEN <<>> ELSE Utf16leUnit(Head(cs)) \o Utf16le(Tail(cs))

\* bytes.ljust(n, b'\0'): pads on the right, never truncates
Ljust(b, n) == IF Len(b) >= n THEN b ELSE b \o [i \in 1..(n - Len(b)) |-> 0]

\* the four bytes of m, 0 <= m < 2^31, low byte first
LowFirst(m) == <<m % 256, (m \div 256) % 256, (m \div 65536) % 256, (m \div 16777216) % 256>>

\* struct format 'l' in standard size: 4 bytes, two's complement (for n < 0 the
\* complement of the bytes of -n - 1), in the given byte order
PackLong(n, byteorder) ==
    LET le == IF n < 0 THEN [i \in 1..4 |-> 255 - LowFirst(0 - n - 1)[i]] ELSE LowFirst(n)
    IN IF byteorder = "little" THEN le ELSE <<le[4], le[3], le[2], le[1]>>

\* struct format 'B' of a bool
PackByte(x) == IF x THEN 1 ELSE 0

\* the LOGFONTW named tuple built at prefix.py:510
LOGFONTW(weight, italic, underline, strikeout) ==
    [lfHeight |-> -12, lfWidth |-> 0, lfEscapement |-> 0, lfOrientation |-> 0,
     lfWeight |-> weight, lfItalic |-> italic, lfUnderline |-> underline,
     lfStrikeOut |-> strikeout, lfCharSet |-> DEFAULT_CHARSET,
     lfOutPrecision |-> OUT_DEFAULT_PRECIS, lfClipPrecision |-> CLIP_DEFAULT_PRECIS,
     lfQuality |-> DEFAULT_QUALITY,
     \* VARIABLE_PITCH | FF_SWISS: the two values share no bit
     lfPitchAndFamily |-> VARIABLE_PITCH + FF_SWISS]

\* the five 'l' fields of the tuple, in tuple order
LongFields(t) == <<t.lfHeight, t.lfWidth, t.lfEscapement, t.lfOrientation, t.lfWeight>>

\* ByteFields with lfCharSet declared before the three style flags
ByteFieldsCharSetFirst(t) ==
    <<t.lfCharSet, PackByte(t.lfItalic), PackByte(t.lfUnderline), PackByte(t.lfStrikeOut),
      t.lfOutPrecision, t.lfClipPrecision, t.lfQuality, t.lfPitchAndFamily>>

\* the eight 'B' fields of the tuple, in tuple order
ByteFields(t) ==
    <<PackByte(t.lfItalic), PackByte(t.lfUnderline), PackByte(t.lfStrikeOut), t.lfCharSet,
      t.lfOutPrecision, t.lfClipPrecision, t.lfQuality, t.lfPitchAndFamily>>

\* struct.pack('=5l8B64B', *t, *face_name): the bytes, or "struct.error" when the
\* number of arguments is not 5 + 8 + 64; '=' is the byte order of the host
Pack(t, face_name, byteorder) ==
    IF Len(face_name) # LF_FULLFACESIZE THEN [status |-> "struct.error", bytes |-> <<>>]
    ELSE [status |-> "bytes",
          bytes |-> PackLong(LongFields(t)[1], byteorder)
                    \o PackLong(LongFields(t)[2], byteorder)
                    \o PackLong(LongFields(t)[3], byteorder)
                    \o PackLong(LongFields(t)[4], byteorder)
                    \o PackLong(LongFields(t)[5], byteorder)
                    \o ByteFields(t) \o face_name]

\* face.encode('utf-16le').ljust(LF_FULLFACESIZE, b'\0')
FaceName(face) == Ljust(Utf16le(FaceOrd[face]), LF_FULLFACESIZE)

\* the descriptor as the code builds it for one face and one weight
EncodeFont(face, weight, italic, underline, strikeout, byteorder) ==
    Pack(LOGFONTW(weight, italic, underline, strikeout), FaceName(face), byteorder)

\* f'{x:02x}'
HexByte(x) ==
    LET h == <<"0", "1", "2", "3", "4", "5", "6", "7", "8", "9", "a", "b", "c", "d", "e", "f">>
    IN h[(x \div 16) + 1] \o h[(x % 16) + 1]

RECURSIVE Hex(_)
\* ''.join(f'{x:02x}' for x in bytes)
Hex(b) == IF b = <<>> THEN "" ELSE HexByte(Head(b)) \o Hex(Tail(b))

-----------------------------------------------------------------------------
(* The request and what the function derives from it *)

Flag(r, name) == name \in r.flags

\* prefix_root, or its default (prefix.py:248)
PrefixRoot(r) == IF r.prefix_root = <<>> THEN DefaultRoot ELSE r.prefix_root

\* target = prefix_root / prefix_name (prefix.py:250)
Target(r) == PathJoin(PrefixRoot(r), r.prefix_name)

\* KeepTrick without the test for the 'vd=' prefix
KeepTrickVersionOnly(t) == t \notin VersionKeywords

\* the condition of the generator at prefix.py:245-247
KeepTrick(t) == t \notin VersionKeywords /\ ~StartsWith(t, "vd=")

\* tricks_list as first assigned (prefix.py:245-247)
FilterTricks(tricks) == SelectSeq(tricks, KeepTrick)

\* tricks_list after the appends of prefix.py:382-389
BuildTricks(tl, r) ==
    tl \o (IF Flag(r, "dxvk_nvapi") THEN <<"dxvk">> ELSE <<>>)
       \o <<WINETRICKS_VERSION_MAPPING[r.windows_version]>>
       \o (IF Flag(r, "sandbox") THEN <<"isolate_home", "sandbox">> ELSE <<>>)
       \o (IF r.vd # "off" THEN <<"vd=" \o r.vd>> ELSE <<>>)

\* TrickArgs without set() and sorted()
TrickArgsAsListed(tl) == tl

\* the trailing arguments of the winetricks command (prefix.py:397)
TrickArgs(tl) == SortedSeq(ToSet(tl))

\* the winetricks command (prefix.py:391-398)
WinetricksCmd(winetricks, r, tl) ==
    <<winetricks, "--force", "--country=US", "--unattended", "prefix=" \o r.prefix_name>>
    \o TrickArgs(tl)

\* BuildEnv with WINEPREFIX taken from the ambient environment when it is set there
BuildEnvPrefixFromAmbient(e, r) ==
    LET get(k, dflt) == IF k \in DOMAIN e THEN e[k] ELSE dflt
        arch == IF Flag(r, "_32bit") THEN "win32" ELSE "None"
        esync == get("WINEESYNC", "")
        base == [k \in {"DISPLAY", "PATH", "WINEPREFIX", "XAUTHORITY", "WINEDEBUG"} |->
                    CASE k = "DISPLAY" -> get("DISPLAY", "")
                      [] k = "PATH" -> e["PATH"]
                      [] k = "WINEPREFIX" -> get("WINEPREFIX", PathStr(Target(r)))
                      [] k = "XAUTHORITY" -> get("XAUTHORITY", "")
                      [] k = "WINEDEBUG" -> get("WINEDEBUG", "fixme-all")]
        archPart == IF arch # "None" THEN [k \in {"WINEARCH"} |-> get("WINEARCH", arch)]
                    ELSE <<>>
        esyncPart == IF esync # "" THEN [k \in {"WINEESYNC"} |-> esync] ELSE <<>>
    IN esyncPart @@ archPart @@ base

\* the dict built at prefix.py:258-270; e is os.environ, which has PATH
BuildEnv(e, r) ==
    LET get(k, dflt) == IF k \in DOMAIN e THEN e[k] ELSE dflt
        arch == IF Flag(r, "_32bit") THEN "win32" ELSE "None"
        esync == get("WINEESYNC", "")
        base == [k \in {"DISPLAY", "PATH", "WINEPREFIX", "XAUTHORITY", "WINEDEBUG"} |->
                    CASE k = "DISPLAY" -> get("DISPLAY", "")
                      [] k = "PATH" -> e["PATH"]
                      [] k = "WINEPREFIX" -> PathStr(Target(r))
                      [] k = "XAUTHORITY" -> get("XAUTHORITY", "")
                      [] k = "WINEDEBUG" -> get("WINEDEBUG", "fixme-all")]
        archPart == IF arch # "None" THEN [k \in {"WINEARCH"} |-> get("WINEARCH", arch)]
                    ELSE <<>>
        esyncPart == IF esync # "" THEN [k \in {"WINEESYNC"} |-> esync] ELSE <<>>
    IN esyncPart @@ archPart @@ base

-----------------------------------------------------------------------------
(* The steps of create_wine_prefix, in the order of the source *)

\* Steps with the no_gecko block written before the no_mono block
StepsGeckoFirst ==
        <<"start", "check", "env", "wineboot", "wineserver",
           "LogPixels", "backend", "EAXEnabled", "ThemeEngine",
           "AppsUseLightTheme", "SystemUsesLightTheme", "Enable",
           "winemenubuilder.exe", "mshtml", "mscoree", "explorer.exe", "services.exe",
           "tmpfs", "winetricks",
           "nv_install", "nv_fetch", "nv_x32", "nv_x64", "nv_copy", "nv_ngx",
           "noto_fonts", "noto_metrics", "asio", "catalog", "return">>

Steps == <<"start", "check", "env", "wineboot", "wineserver",
           "LogPixels", "backend", "EAXEnabled", "ThemeEngine",
           "AppsUseLightTheme", "SystemUsesLightTheme", "Enable",
           "winemenubuilder.exe", "mscoree", "mshtml", "explorer.exe", "services.exe",
           "tmpfs", "winetricks",
           "nv_install", "nv_fetch", "nv_x32", "nv_x64", "nv_copy", "nv_ngx",
           "noto_fonts", "noto_metrics", "asio", "catalog", "return">>

\* the steps that are one `wine reg add` each (prefix.py:277-373)
RegEditSteps == {"LogPixels", "backend", "EAXEnabled", "ThemeEngine",
                 "AppsUseLightTheme", "SystemUsesLightTheme", "Enable",
                 "winemenubuilder.exe", "mscoree", "mshtml", "explorer.exe",
                 "services.exe"}

\* DpiOverride with `>` for `!=`
DpiOverrideAbove(r) == r.dpi > DEFAULT_DPI

\* `if dpi != DEFAULT_DPI` (prefix.py:277)
DpiOverride(r) == r.dpi # DEFAULT_DPI

\* Wants64 with the test left out
Wants64Always(r) == TRUE

\* `if not _32bit` (prefix.py:433, 463)
Wants64(r) == ~Flag(r, "_32bit")

\* Guard with the wineasio-register step entered whatever the request says
GuardRegisterAlways(l, r) ==
    CASE l = "LogPixels" -> DpiOverride(r)
      [] l = "backend" -> Flag(r, "dxva_vaapi")
      [] l = "EAXEnabled" -> Flag(r, "eax")
      [] l = "ThemeEngine" -> Flag(r, "gtk")
      [] l \in {"AppsUseLightTheme", "SystemUsesLightTheme"} -> Flag(r, "winrt_dark")
      [] l = "Enable" -> Flag(r, "no_associations")
      [] l = "winemenubuilder.exe" -> Flag(r, "no_xdg")
      [] l = "mscoree" -> Flag(r, "no_mono")
      [] l = "mshtml" -> Flag(r, "no_gecko")
      [] l = "explorer.exe" -> Flag(r, "disable_explorer")
      [] l = "services.exe" -> Flag(r, "disable_services")
      [] l = "tmpfs" -> Flag(r, "tmpfs")
      [] l \in {"nv_install", "nv_fetch", "nv_x32", "nv_copy"} -> Flag(r, "dxvk_nvapi")
      [] l \in {"nv_x64", "nv_ngx"} -> Flag(r, "dxvk_nvapi") /\ Wants64(r)
      [] l \in {"noto_fonts", "noto_metrics"} -> Flag(r, "noto_sans")
      [] l = "asio" -> TRUE
      [] OTHER -> TRUE

\* the `if` that guards each step
Guard(l, r) ==
    CASE l = "LogPixels" -> DpiOverride(r)
      [] l = "backend" -> Flag(r, "dxva_vaapi")
      [] l = "EAXEnabled" -> Flag(r, "eax")
      [] l = "ThemeEngine" -> Flag(r, "gtk")
      [] l \in {"AppsUseLightTheme", "SystemUsesLightTheme"} -> Flag(r, "winrt_dark")
      [] l = "Enable" -> Flag(r, "no_associations")
      [] l = "winemenubuilder.exe" -> Flag(r, "no_xdg")
      [] l = "mscoree" -> Flag(r, "no_mono")
      [] l = "mshtml" -> Flag(r, "no_gecko")
      [] l = "explorer.exe" -> Flag(r, "disable_explorer")
      [] l = "services.exe" -> Flag(r, "disable_services")
      [] l = "tmpfs" -> Flag(r, "tmpfs")
      [] l \in {"nv_install", "nv_fetch", "nv_x32", "nv_copy"} -> Flag(r, "dxvk_nvapi")
      [] l \in {"nv_x64", "nv_ngx"} -> Flag(r, "dxvk_nvapi") /\ Wants64(r)
      [] l \in {"noto_fonts", "noto_metrics"} -> Flag(r, "noto_sans")
      [] l = "asio" -> Flag(r, "asio")
      [] OTHER -> TRUE

IndexOf(l) == CHOOSE i \in 1..Len(Steps) : Steps[i] = l

\* the next step after l whose guard holds ("return" always does)
After(l, r) ==
    LET later == {j \in (IndexOf(l) + 1)..Len(Steps) : Guard(Steps[j], r)}
    IN Steps[CHOOSE j \in later : \A k \in later : j <= k]

DllOverrides == "HKCU\\Software\\Wine\\DllOverrides"

\* the command tuple of each registry-edit step (prefix.py:278-371)
RegEditCmd(l, r) ==
    CASE l = "LogPixels" ->
            <<"wine", "reg", "add", "HKCU\\Control Panel\\Desktop", "/t", "REG_DWORD",
              "/v", "LogPixels", "/d", Str(r.dpi), "/f">>
      [] l = "backend" ->
            <<"wine", "reg", "add", "HKCU\\Software\\Wine\\DXVA2", "/v", "backend",
              "/d", "va", "/f">>
      [] l = "EAXEnabled" ->
            <<"wine", "reg", "add", "HKCU\\Software\\Wine\\DirectSound", "/v",
              "EAXEnabled", "/d", "Y", "/f">>
      [] l = "ThemeEngine" ->
            <<"wine", "reg", "add", "HKCU\\Software\\Wine", "/v", "ThemeEngine",
              "/d", "GTK", "/f">>
      [] l \in {"AppsUseLightTheme", "SystemUsesLightTheme"} ->
            <<"wine", "reg", "add",
              "HKCU\\Software\\Microsoft\\Windows\\CurrentVersion\\Themes\\Personalize",
              "/t", "REG_DWORD", "/v", l, "/d", "0", "/f">>
      [] l = "Enable" ->
            <<"wine", "reg", "add", "HKCU\\Software\\Wine\\Explorer\\FileAssociations",
              "/v", "Enable", "/d", "N", "/f">>
      [] OTHER ->
            <<"wine", "reg", "add", DllOverrides, "/v", l, "/f">>

\* the native-override edit issued before each extraction (prefix.py:417-427, 442-452)
NativeOverrideCmd(wine, item) ==
    <<wine, "reg", "add", DllOverrides, "/v", item, "/d", "native", "/f">>

\* prefix.py:464-476
NgxCmd ==
    <<"wine64", "reg", "add", "HKLM\\Software\\NVIDIA Corporation\\Global\\NGXCore",
      "/t", "REG_SZ", "/v", "FullPath", "/d", "C:\\Windows\\system32", "/f">>

\* prefix.py:481-493
FontSubstituteCmd(font_name) ==
    <<"wine", "reg", "add",
      "HKLM\\Software\\Microsoft\\Windows NT\\CurrentVersion\\FontSubstitutes",
      "/t", "REG_SZ", "/v", font_name, "/d", "Noto Sans", "/f">>

\* WindowMetricsCmd with the normal weight for every element
WindowMetricsCmdAllNormal(entry_name, byteorder) ==
    <<"wine", "reg", "add", "HKCU\\Control Panel\\Desktop\\WindowMetrics",
      "/t", "REG_BINARY", "/v", entry_name \o "Font", "/d",
      Hex(EncodeFont("Noto Sans", FW_NORMAL, FALSE, FALSE, FALSE, byteorder).bytes),
      "/f">>

\* prefix.py:498-528
WindowMetricsCmd(entry_name, byteorder) ==
    <<"wine", "reg", "add", "HKCU\\Control Panel\\Desktop\\WindowMetrics",
      "/t", "REG_BINARY", "/v", entry_name \o "Font", "/d",
      Hex(EncodeFont("Noto Sans", IF entry_name = "Caption" THEN FW_BOLD ELSE FW_NORMAL,
                     FALSE, FALSE, FALSE, byteorder).bytes),
      "/f">>

\* Raises with the winetricks call outside the try block
RaisesEverywhere(l, rc) == rc # 0

\* Raises with check=True missing from the wineasio-register call
RaisesButRegister(l, rc) == rc # 0 /\ l \notin {"winetricks", "asio"}

\* check=True: a nonzero exit raises CalledProcessError out of the function, except
\* inside the try block of prefix.py:384-402, which holds the winetricks call
Raises(l, rc) == rc # 0 /\ l # "winetricks"

-----------------------------------------------------------------------------
(* Inputs: requests, environments and filesystems a call can start from *)

DefaultRequest ==
    [prefix_name |-> "games", prefix_root |-> <<>>, flags |-> {}, dpi |-> DEFAULT_DPI,
     tricks |-> <<>>, vd |-> "off", windows_version |-> "10"]

\* the environment of the tests (test_prefix.py:29-37)
TestEnviron == [k \in {"PATH", "DISPLAY", "XAUTHORITY"} |->
                   CASE k = "PATH" -> "/bin" [] k = "DISPLAY" -> ":0"
                     [] k = "XAUTHORITY" -> "/tmp/.Xauthority"]

EnvironInputs ==
    { TestEnviron,
      [k \in {"PATH", "XAUTHORITY"} |-> TestEnviron[k]],
      [k \in {"DISPLAY"} |-> TestEnviron[k]],
      ("WINEARCH" :> "win64" @@ "WINEESYNC" :> "1" @@ "WINEDEBUG" :> "-all"
        @@ "WINEPREFIX" :> "/srv/other" @@ "USER" :> "alice" @@ TestEnviron),
      ("WINEESYNC" :> "" @@ TestEnviron) }

FreshFs == [dirs |-> BaseDirs, files |-> {}, links |-> {}]

\* filesystems around one root and one target: neither there, the root there, the
\* target there as a directory or as a file, a file where the root should be, a file
\* where the parent of the root should be
FsInputs(root, target) ==
    { FreshFs,
      [FreshFs EXCEPT !.dirs = @ \cup Ancestors(root)],
      [FreshFs EXCEPT !.dirs = @ \cup Ancestors(root) \cup Ancestors(target)],
      [FreshFs EXCEPT !.dirs = @ \cup Ancestors(root),
                      !.files = IF target \in BaseDirs \cup Ancestors(root) THEN {}
                                ELSE {target}],
      [FreshFs EXCEPT !.dirs = @ \cup Ancestors(SubSeq(root, 1, Len(root) - 1)),
                      !.files = {root}],
      [FreshFs EXCEPT !.dirs = @ \cup Ancestors(SubSeq(root, 1, Len(root) - 2)),
                      !.files = {SubSeq(root, 1, Len(root) - 1)}] }

RECURSIVE SmallSubsets(_, _)
\* the subsets of S with at most k elements
SmallSubsets(S, k) ==
    IF k = 0 THEN {{}}
    ELSE SmallSubsets(S, k - 1) \cup {T \cup {x} : T \in SmallSubsets(S, k - 1), x \in S}

\* the boolean flags, and "dpi" for a DPI other than the default
Switches == FlagNames \cup {"dpi"}

\* few switches on, or all of them on but at most one
SwitchSets ==
    SmallSubsets(Switches, MaxFlagDeviation)
    \cup {Switches} \cup {Switches \ {x} : x \in Switches}

TrickVocabulary == {"corefonts", "dxvk", "sandbox", "win10", "vd=800x600"}

TrickLists == UNION {[1..n -> TrickVocabulary] : n \in 0..MaxTricks}

Scenario(r, e, f) == [req |-> r, environ |-> e, fs |-> f]

\* every combination of switches near "all off" and near "all on"
SwitchScenarios ==
    {Scenario([DefaultRequest EXCEPT !.flags = S \cap FlagNames,
                                     !.dpi = IF "dpi" \in S THEN DEFAULT_DPI + DpiDelta
                                             ELSE DEFAULT_DPI,
                                     !.tricks = <<"dxvk", "corefonts">>],
              TestEnviron, FreshFs) : S \in SwitchSets}

\* every tricks list, with sandbox and vd, under the default version and another one
TrickScenarios ==
    {Scenario([DefaultRequest EXCEPT !.tricks = t, !.windows_version = v, !.vd = d,
                                     !.flags = IF sb THEN {"sandbox"} ELSE {}],
              TestEnviron, FreshFs) :
        t \in TrickLists, v \in {"10", "xp"}, d \in {"off", "800x600"}, sb \in BOOLEAN}

\* every windows_version with every tricks list of at most one trick
VersionScenarios ==
    {Scenario([DefaultRequest EXCEPT !.tricks = t, !.windows_version = v, !.vd = d],
              TestEnviron, FreshFs) :
        t \in {<<>>} \cup {<<x>> : x \in TrickVocabulary},
        v \in DOMAIN WINETRICKS_VERSION_MAPPING, d \in {"off", "800x600"}}

DpiInputs == {0 - DpiDelta, 0, DEFAULT_DPI, DEFAULT_DPI + DpiDelta, 10 * DEFAULT_DPI + DpiDelta}

DpiScenarios ==
    {Scenario([DefaultRequest EXCEPT !.dpi = d], TestEnviron, FreshFs) : d \in DpiInputs}

EnvironScenarios ==
    {Scenario([DefaultRequest EXCEPT !.flags = fl], e, FreshFs) :
        e \in EnvironInputs, fl \in {{}, {"_32bit"}}}

\* every prefix_name and prefix_root against every filesystem around them
ExistenceScenarios ==
    UNION {{Scenario([DefaultRequest EXCEPT !.prefix_name = n, !.prefix_root = pr],
                     TestEnviron, f) :
              f \in FsInputs(PrefixRoot([DefaultRequest EXCEPT !.prefix_root = pr]),
                             Target([DefaultRequest EXCEPT !.prefix_name = n,
                                                           !.prefix_root = pr]))} :
           n \in DOMAIN NameParts, pr \in {<<>>, <<"srv", "wine">>}}

Scenarios ==
    SwitchScenarios \cup TrickScenarios \cup VersionScenarios \cup DpiScenarios
    \cup EnvironScenarios
    \cup ExistenceScenarios

\* the orders in which a set of strings can be iterated, indexed by the hash seed
SetOrder(seq, s) ==
    LET n == Len(seq)
        rot == [i \in 1..n |-> seq[((i - 1 + (s \div 2)) % n) + 1]]
    IN IF s % 2 = 0 THEN rot ELSE [i \in 1..n |-> rot[n + 1 - i]]

\* LoopItems with the iterator over the UI elements advanced once before the loop
LoopItemsAfterFirst(l, s) ==
    CASE l = "nv_x32" -> NVAPI_X32
      [] l = "nv_x64" -> NVAPI_X64
      [] l = "noto_fonts" -> SetOrder(NOTO_FONT_REPLACEMENTS, s)
      [] l = "noto_metrics" -> Tail(SetOrder(NOTO_REGISTRY_ENTRIES, s))

\* the items a loop step visits, in order
LoopItems(l, s) ==
    CASE l = "nv_x32" -> NVAPI_X32
      [] l = "nv_x64" -> NVAPI_X64
      [] l = "noto_fonts" -> SetOrder(NOTO_FONT_REPLACEMENTS, s)
      [] l = "noto_metrics" -> SetOrder(NOTO_REGISTRY_ENTRIES, s)

-----------------------------------------------------------------------------
(* The Q4Wine catalog database: each table is the set of its rows *)

\* (cmdargs, exec, icon_path, desc, folder, display name) of the default shortcuts
Q4WINE_DEFAULT_ICONS == <<
    <<"", "control.exe", "control", "Wine control panel", "system", "Control Panel">>,
    <<"", "eject.exe", "eject", "Wine CD eject tool", "system", "Eject">>,
    <<"", "explorer.exe", "explorer", "Browse the files in the virtual Wine Drive",
      "system", "Explorer">>,
    <<"", "iexplore.exe", "iexplore", "Wine internet browser", "system",
      "Internet Explorer">>,
    <<"", "notepad.exe", "notepad", "Wine notepad text editor", "system", "Notepad">>,
    <<"", "oleview.exe", "oleview", "Wine OLE/COM object viewer", "system", "OLE Viewer">>,
    <<"", "regedit.exe", "regedit", "Wine registry editor", "system", "Registry Editor">>,
    <<"", "taskmgr.exe", "taskmgr", "Wine task manager", "system", "Task Manager">>,
    <<"", "uninstaller.exe", "uninstaller",
      "Uninstall Windows programs under Wine properly", "system", "Uninstaller">>,
    <<"", "winecfg.exe", "winecfg", "Configure the general settings for Wine", "system",
      "Configuration">>,
    <<"", "wineconsole", "wineconsole", "Wineconsole is similar to wine command wcmd",
      "system", "Console">>,
    <<"", "winemine.exe", "winemine", "Wine sweeper game", "system", "Winemine">>,
    <<"", "wordpad.exe", "wordpad", "Wine wordpad text editor", "system", "WordPad">> >>

\* the directory names of prefix.py:556, in order
Q4WINE_DIRS == <<"system", "autostart", "import">>

\* the run_string literal of prefix.py:548-550
RunTemplate ==
    "%CONSOLE_BIN% %CONSOLE_ARGS% %ENV_BIN% %ENV_ARGS% /bin/sh -c "
    \o "\"%WORK_DIR% %SET_NICE% %WINE_BIN% %VIRTUAL_DESKTOP% %PROGRAM_BIN% "
    \o "%PROGRAM_ARGS% 2>&1 \""

\* SQL NULL in a text column
NullText == "NULL"

\* a database without rows
EmptyDb == [prefix |-> {}, dir |-> {}, icon |-> {}, logging |-> {}]

\* the rowid SQLite gives the next row of a table: one more than the largest
NextId(rows) ==
    IF rows = {} THEN 1
    ELSE (CHOOSE m \in {r.id : r \in rows} : \A r \in rows : r.id <= m) + 1

\* INSERT INTO prefix (name, path, mountpoint_windrive, run_string, version_id)
InsertPrefix(d, name, path) ==
    [d EXCEPT !.prefix = @ \cup {[id |-> NextId(d.prefix), name |-> name, path |-> path,
                                  mountpoint_windrive |-> "D:",
                                  run_string |-> RunTemplate, version_id |-> 1]}]

\* the three INSERT INTO dir (name, prefix_id) of prefix.py:556-557
InsertDirs(d, prefix_id) ==
    [d EXCEPT !.dir = @ \cup {[id |-> NextId(d.dir) + i - 1, name |-> Q4WINE_DIRS[i],
                               prefix_id |-> prefix_id] : i \in 1..Len(Q4WINE_DIRS)}]

\* SelectDirId with the subquery written without `AND prefix_id = ?`
SelectDirIdByNameOnly(d, name, prefix_id) ==
    LET found == {r.id : r \in {x \in d.dir : x.name = name}}
    IN IF found = {} THEN {0} ELSE found

\* SELECT id FROM dir WHERE name = ? AND prefix_id = ?: the rows the scalar subquery
\* can yield (SQL leaves the choice among several open), NULL (written 0, which no
\* row has as its id) when there is none
SelectDirId(d, name, prefix_id) ==
    LET found == {r.id : r \in {x \in d.dir : x.name = name /\ x.prefix_id = prefix_id}}
    IN IF found = {} THEN {0} ELSE found

\* `args or None`
OrNone(text) == IF text = "" THEN NullText ELSE text

\* the thirteen INSERT INTO icon of prefix.py:558-577; dir_id is what the subquery
\* yielded
InsertIcons(d, prefix_id, dir_id) ==
    [d EXCEPT !.icon = @ \cup
        {[id |-> NextId(d.icon) + i - 1,
          cmdargs |-> OrNone(Q4WINE_DEFAULT_ICONS[i][1]),
          exec |-> Q4WINE_DEFAULT_ICONS[i][2],
          icon_path |-> Q4WINE_DEFAULT_ICONS[i][3],
          desc |-> Q4WINE_DEFAULT_ICONS[i][4],
          dir_id |-> dir_id,
          name |-> Q4WINE_DEFAULT_ICONS[i][6],
          prefix_id |-> prefix_id,
          nice |-> 0] : i \in 1..Len(Q4WINE_DEFAULT_ICONS)}]

\* DELETE FROM logging WHERE prefix_id = ?
DeleteLogging(d, prefix_id) ==
    [d EXCEPT !.logging = {r \in @ : r.prefix_id # prefix_id}]

\* the databases prefix.py:539-578 can leave behind, committed on leaving the `with`
CatalogResults(d, r) ==
    LET prefix_id == NextId(d.prefix)
        d2 == InsertDirs(InsertPrefix(d, r.prefix_name, PathStr(Target(r))), prefix_id)
    IN {DeleteLogging(InsertIcons(d2, prefix_id, dir_id), prefix_id) :
           dir_id \in SelectDirId(d2, "system", prefix_id)}

\* a catalog that already lists one prefix, with its directories and one shortcut
OnePrefixDb ==
    [prefix |-> {[id |-> 1, name |-> "office", path |-> "/home/user/.wine-office",
                  mountpoint_windrive |-> "D:", run_string |-> RunTemplate,
                  version_id |-> 1]},
     dir |-> {[id |-> i, name |-> Q4WINE_DIRS[i], prefix_id |-> 1] : i \in 1..3},
     icon |-> {[id |-> 1, cmdargs |-> NullText, exec |-> "winecfg.exe",
                icon_path |-> "winecfg", desc |-> "Configure the general settings for Wine",
                dir_id |-> 1, name |-> "Configuration", prefix_id |-> 1, nice |-> 0]},
     logging |-> {[id |-> 1, prefix_id |-> 1]}]

\* the catalogs a run can find: a new one, one in use, and one in use that still holds
\* log rows of a removed prefix whose id the new prefix receives
DbInputs ==
    { EmptyDb,
      OnePrefixDb,
      [OnePrefixDb EXCEPT !.logging = @ \cup {[id |-> 2, prefix_id |-> 2],
                                              [id |-> 3, prefix_id |-> 2]}] }

-----------------------------------------------------------------------------
(* The command line: main (main.py) *)

\* the is_flag options of main.py:20-61 and the parameter of main each one sets
CliFlagOptions ==
    "--debug" :> "debug" @@ "--disable-explorer" :> "disable_explorer" @@
    "--disable-services" :> "disable_services" @@ "--eax" :> "eax" @@ "--gtk" :> "gtk" @@
    "--sandbox" :> "sandbox" @@ "--no-gecko" :> "no_gecko" @@ "--no-mono" :> "no_mono" @@
    "--no-xdg" :> "no_xdg" @@ "--no-assocs" :> "no_assocs" @@ "--nvapi" :> "nvapi" @@
    "--noto" :> "noto" @@ "--tmpfs" :> "tmpfs" @@ "--winrt-dark" :> "winrt_dark" @@
    "--dxva-vaapi" :> "dxva_vaapi" @@ "--32" :> "_32bit"

\* the keyword argument of create_wine_prefix that receives each boolean parameter of
\* main (main.py:95-118)
RequestFlagOf ==
    "_32bit" :> "_32bit" @@ "asio" :> "asio" @@ "disable_explorer" :> "disable_explorer" @@
    "disable_services" :> "disable_services" @@ "dxva_vaapi" :> "dxva_vaapi" @@
    "nvapi" :> "dxvk_nvapi" @@ "eax" :> "eax" @@ "gtk" :> "gtk" @@
    "no_assocs" :> "no_associations" @@ "no_gecko" :> "no_gecko" @@
    "no_mono" :> "no_mono" @@ "no_xdg" :> "no_xdg" @@ "noto" :> "noto_sans" @@
    "sandbox" :> "sandbox" @@ "tmpfs" :> "tmpfs" @@ "winrt_dark" :> "winrt_dark"

\* a command line: the positional argument, the flag options given, and the values of
\* the options that take one (<<>> when the option is not given)
NoArgv == [prefix_name |-> "games", options |-> {}, dpi |-> <<>>, prefix_root |-> <<>>,
           tricks |-> <<>>, vd |-> <<>>, windows_version |-> <<>>]

\* click's parse: the parameters main is called with; a flag that is not given, and a
\* parameter that no option sets, has its default
ClickParse(argv) ==
    [prefix_name |-> argv.prefix_name,
     prefix_root |-> argv.prefix_root,
     tricks |-> argv.tricks,
     vd |-> IF argv.vd = <<>> THEN "off" ELSE argv.vd[1],
     windows_version |-> IF argv.windows_version = <<>> THEN "10"
                         ELSE argv.windows_version[1],
     dpi |-> IF argv.dpi = <<>> THEN DEFAULT_DPI ELSE argv.dpi[1],
     flags |-> {CliFlagOptions[o] : o \in argv.options}]

\* the keyword arguments main passes on (main.py:95-118)
MainRequest(params) ==
    [prefix_name |-> params.prefix_name,
     prefix_root |-> params.prefix_root,
     flags |-> {RequestFlagOf[p] : p \in params.flags \cap DOMAIN RequestFlagOf},
     dpi |-> params.dpi,
     tricks |-> params.tricks,
     vd |-> params.vd,
     windows_version |-> params.windows_version]

\* prefix names with a character outside shlex's safe set
ShellUnsafe == {"my games"}

\* quote(f'WINEPREFIX={target}'): unchanged when every character is safe, else in
\* single quotes (the inputs hold no single quote)
WineprefixEnv(r) ==
    LET text == "WINEPREFIX=" \o PathStr(Target(r))
    IN IF r.prefix_name \in ShellUnsafe THEN "'" \o text \o "'" ELSE text

\* the message of main.py:127-134; <U+0060> stands for the backquote character
Advice(r) ==
    "Run <U+0060>export WINEPREFIX=" \o PathStr(Target(r))
    \o "<U+0060> before running wine or use env:\n\nenv " \o WineprefixEnv(r)
    \o " wine ...\n\nIf you ran this with eval, your shell is ready."

\* the two lines of main.py:135-136; <U+1F377> stands for the wine glass character
ExportLines(r) ==
    <<"export " \o WineprefixEnv(r),
      "export PS1=\"" \o r.prefix_name \o "<U+1F377>$PS1\"">>

\* what the child process of invocation c wrote on its standard error and standard
\* output; sp.run leaves both streams of the child attached to those of the caller
WrittenStderr(c) == "<stderr of " \o c.cmd[1] \o ">"
WrittenStdout(c) == "<stdout of " \o c.cmd[1] \o ">"

\* e.stderr and e.stdout of the CalledProcessError of sp.run(cmd, env=env, check=True):
\* sp.run is given neither capture_output nor a pipe, so both are None
CapturedStderr(c) == "None"
CapturedStdout(c) == "None"

\* the three lines of main.py:122-124 for the failed invocation c
Diagnostics(c) ==
    <<"Exception: Command returned non-zero exit status " \o Str(c.rc),
      "STDERR: " \o CapturedStderr(c),
      "STDOUT: " \o CapturedStdout(c)>>

\* main has not been entered; main is running
NoCli == [entered |-> FALSE, argv |-> NoArgv, stdout |-> <<>>, stderr |-> <<>>,
          status |-> -1]

\* the command lines main is started with: no option, each flag alone, all flags, each
\* valued option alone
CliArgvs ==
    {[NoArgv EXCEPT !.options = O] :
        O \in {{}, DOMAIN CliFlagOptions} \cup {{o} : o \in DOMAIN CliFlagOptions}}
    \cup { [NoArgv EXCEPT !.dpi = <<DEFAULT_DPI + DpiDelta>>],
           [NoArgv EXCEPT !.prefix_root = <<"srv", "wine">>],
           [NoArgv EXCEPT !.tricks = <<"win10", "corefonts">>],
           [NoArgv EXCEPT !.vd = <<"800x600">>],
           [NoArgv EXCEPT !.windows_version = <<"xp">>],
           [NoArgv EXCEPT !.prefix_name = "my games"] }

\* main started with each command line on a fresh host, and with no option on a host
\* where the target is there already, and on one without PATH
CliScenarios ==
    {[argv |-> a, environ |-> TestEnviron, fs |-> FreshFs] : a \in CliArgvs}
    \cup {[argv |-> NoArgv, environ |-> TestEnviron, fs |-> f] :
             f \in FsInputs(DefaultRoot, Target(MainRequest(ClickParse(NoArgv))))}
    \cup {[argv |-> NoArgv, environ |-> [k \in {"DISPLAY"} |-> TestEnviron[k]],
           fs |-> FreshFs]}

-----------------------------------------------------------------------------
(* The state machine *)

\* nothing of the host has been read yet
Unread == [seed |-> -1, byteorder |-> "unread", winetricks |-> "unread",
           register |-> "unread", catalog |-> "unread"]

\* a struct.pack result: not computed yet, the bytes, or the exception
NoBytes == [status |-> "none", bytes |-> <<>>]

NoFont == [face |-> "", weight |-> 0, italic |-> FALSE, underline |-> FALSE,
           strikeout |-> FALSE, byteorder |-> "little", out |-> NoBytes]

\* no earlier run is on record
NoPrior == [set |-> FALSE, calls |-> <<>>, env |-> <<>>, result |-> "none",
            winetricks |-> "unread", register |-> "unread"]

\* what every run starts with
Blank ==
    /\ env = <<>>
    /\ tricks_list = <<>>
    /\ calls = <<>>
    /\ iter = <<>>
    /\ host = Unread
    /\ warnings = <<>>
    /\ dbops = <<>>
    /\ result = "none"
    /\ lf = NoFont
    /\ db0 = EmptyDb
    /\ db = EmptyDb
    /\ prior = NoPrior

\* create_wine_prefix called with a request, or main started with a command line
Init ==
    /\ \/ \E sc \in Scenarios :
             /\ req = sc.req
             /\ environ = sc.environ
             /\ fs0 = sc.fs
             /\ fs = sc.fs
             /\ cli = NoCli
             /\ pc = "start"
       \/ \E sc \in CliScenarios :
             /\ req = DefaultRequest
             /\ environ = sc.environ
             /\ fs0 = sc.fs
             /\ fs = sc.fs
             /\ cli = [NoCli EXCEPT !.entered = TRUE, !.argv = sc.argv]
             /\ pc = "main"
    /\ Blank

\* one sp.run call: the command, whether env=env was passed, the exit status
Invocation(cmd, passesEnv, rc) == [cmd |-> cmd, env |-> passesEnv, rc |-> rc]

\* the environment the child process of invocation c runs in: the env= argument of
\* sp.run when one is given, else the environment of the calling process
RunEnvironment(c) == IF c.env THEN env ELSE environ

\* leave the function with an exception
Raise(exc) == pc' = "done" /\ result' = exc /\ iter' = <<>>

\* go on with the next enabled step
Continue == pc' = After(pc, req) /\ result' = result /\ iter' = <<>>

\* sp.run(cmd, env=env, check=True) as the whole of a step
RunStep(cmd) ==
    \E rc \in {0, 1} :
        /\ calls' = Append(calls, Invocation(cmd, TRUE, rc))
        /\ IF Raises(pc, rc) THEN Raise("CalledProcessError") ELSE Continue

\* main.py:93-118: main calls create_wine_prefix with the parameters click parsed
MainCall ==
    /\ pc = "main"
    /\ req' = MainRequest(ClickParse(cli.argv))
    /\ pc' = "start"
    /\ UNCHANGED <<environ, fs0, fs, env, tricks_list, calls, iter, host, warnings, dbops,
                   result, lf, db0, db, cli, prior>>

\* main.py:119-136: what main does with the outcome of create_wine_prefix; click.Abort,
\* and an exception nothing catches, end the process with status 1
MainExit ==
    /\ pc = "done"
    /\ cli.entered
    /\ cli.status = -1
    /\ cli' =
          CASE result = "returned" ->
                 [cli EXCEPT !.stderr = <<Advice(req)>>, !.stdout = ExportLines(req),
                             !.status = 0]
            [] result = "FileExistsError" ->
                 [cli EXCEPT !.stderr = <<"Aborted!">>, !.status = 1]
            [] result = "CalledProcessError" ->
                 [cli EXCEPT !.stderr = Diagnostics(calls[Len(calls)]) \o <<"Aborted!">>,
                             !.status = 1]
            [] OTHER ->
                 [cli EXCEPT !.stderr = <<"Traceback: " \o result>>,
                             !.status = 1]
    /\ UNCHANGED <<pc, req, environ, fs0, fs, env, tricks_list, calls, iter, host,
                   warnings, dbops, result, lf, db0, db, prior>>

\* prefix.py:245-249: the filtered tricks, then prefix_root.mkdir(parents=True,
\* exist_ok=True)
MkdirRoot ==
    /\ pc = "start"
    /\ tricks_list' = FilterTricks(req.tricks)
    /\ IF MkdirOutcome(fs, PrefixRoot(req)) # "ok"
       THEN fs' = fs /\ Raise(MkdirOutcome(fs, PrefixRoot(req)))
       ELSE fs' = Mkdir(fs, PrefixRoot(req)) /\ Continue
    /\ UNCHANGED <<db0, db, cli, prior>>
    /\ UNCHANGED <<req, environ, fs0, env, calls, host, warnings, dbops, lf>>

\* `if target.exists()` (prefix.py:251)
TargetConflict(f, r) == Exists(f, Target(r))

\* prefix.py:250-252
CheckTarget ==
    /\ pc = "check"
    /\ IF TargetConflict(fs, req) THEN Raise("FileExistsError") ELSE Continue
    /\ UNCHANGED <<db0, db, cli, prior>>
    /\ UNCHANGED <<req, environ, fs0, fs, env, tricks_list, calls, host, warnings, dbops, lf>>

\* prefix.py:253-270
BuildEnvStep ==
    /\ pc = "env"
    /\ warnings' = IF "DISPLAY" \notin DOMAIN environ \/ "XAUTHORITY" \notin DOMAIN environ
                   THEN Append(warnings, "no DISPLAY or XAUTHORITY")
                   ELSE warnings
    /\ IF "PATH" \in DOMAIN environ
       THEN env' = BuildEnv(environ, req) /\ Continue
       ELSE env' = env /\ Raise("KeyError")
    /\ UNCHANGED <<db0, db, cli, prior>>
    /\ UNCHANGED <<req, environ, fs0, fs, tricks_list, calls, host, dbops, lf>>

\* prefix.py:271-273; a successful wineboot --init creates the prefix directory with
\* the Windows directory and the profile of the login user
Wineboot ==
    /\ pc = "wineboot"
    /\ \E rc \in {0, 1} :
        /\ calls' = Append(calls, Invocation(<<"wineboot", "--init">>, TRUE, rc))
        /\ fs' = IF rc = 0
                 THEN Mkdir(Mkdir(fs, Target(req) \o <<"drive_c", "windows", "temp">>),
                            Target(req) \o <<"drive_c", "users", LoginName, "Temp">>)
                 ELSE fs
        /\ IF Raises(pc, rc) THEN Raise("CalledProcessError") ELSE Continue
    /\ UNCHANGED <<db0, db, cli, prior>>
    /\ UNCHANGED <<req, environ, fs0, env, tricks_list, host, warnings, dbops, lf>>

\* prefix.py:274-276
Wineserver ==
    /\ pc = "wineserver"
    /\ RunStep(<<"wineserver", "-w">>)
    /\ UNCHANGED <<db0, db, cli, prior>>
    /\ UNCHANGED <<req, environ, fs0, fs, env, tricks_list, host, warnings, dbops, lf>>

\* prefix.py:277-373: one conditional registry edit
RegEdit ==
    /\ pc \in RegEditSteps
    /\ RunStep(RegEditCmd(pc, req))
    /\ UNCHANGED <<db0, db, cli, prior>>
    /\ UNCHANGED <<req, environ, fs0, fs, env, tricks_list, host, warnings, dbops, lf>>

\* prefix.py:374-381; symlink_to raises when the parent directory is missing
Tmpfs ==
    /\ pc = "tmpfs"
    /\ LET username == IF "USER" \in DOMAIN environ THEN environ["USER"]
                       ELSE IF "USERNAME" \in DOMAIN environ THEN environ["USERNAME"]
                       ELSE "user"
           userTemp == Target(req) \o <<"drive_c", "users", username, "Temp">>
           winTemp == Target(req) \o <<"drive_c", "windows", "temp">>
           under(p) == {q \in fs.dirs \cup fs.files \cup fs.links :
                           Len(q) >= Len(p) /\ SubSeq(q, 1, Len(p)) = p}
           gone == under(userTemp) \cup under(winTemp)
           cleared == [dirs |-> fs.dirs \ gone, files |-> fs.files \ gone,
                       links |-> fs.links \ gone]
       IN IF SubSeq(userTemp, 1, Len(userTemp) - 1) \in cleared.dirs
          THEN /\ fs' = [cleared EXCEPT !.links = @ \cup {userTemp, winTemp}]
               /\ Continue
          ELSE /\ fs' = cleared
               /\ Raise("FileNotFoundError")
    /\ UNCHANGED <<db0, db, cli, prior>>
    /\ UNCHANGED <<req, environ, fs0, env, tricks_list, calls, host, warnings, dbops, lf>>

\* prefix.py:382-402: the appends, which('winetricks'), the call and the except clause
Winetricks ==
    /\ pc = "winetricks"
    /\ tricks_list' = BuildTricks(tricks_list, req)
    /\ \E found \in BOOLEAN, rc \in {0, 1} :
        /\ host' = [host EXCEPT !.winetricks = IF found THEN "found" ELSE "absent"]
        /\ IF found
           THEN
             /\ calls' = Append(calls,
                    Invocation(WinetricksCmd("/usr/bin/winetricks", req,
                                             BuildTricks(tricks_list, req)), FALSE, rc))
             /\ IF Raises(pc, rc)
                THEN warnings' = warnings /\ Raise("CalledProcessError")
                ELSE /\ warnings' = IF rc # 0
                                    THEN Append(warnings, "Winetricks exit code")
                                    ELSE warnings
                     /\ Continue
           ELSE
             /\ rc = 0
             /\ calls' = calls
             /\ warnings' = warnings
             /\ Continue
    /\ UNCHANGED <<db0, db, cli, prior>>
    /\ UNCHANGED <<req, environ, fs0, fs, env, dbops, lf>>

\* prefix.py:404-406
NvInstall ==
    /\ pc = "nv_install"
    /\ RunStep(<<"setup_vkd3d_proton.sh", "install">>)
    /\ UNCHANGED <<db0, db, cli, prior>>
    /\ UNCHANGED <<req, environ, fs0, fs, env, tricks_list, host, warnings, dbops, lf>>

\* prefix.py:407-415: the download and the opening of the archive
NvFetch ==
    /\ pc = "nv_fetch"
    /\ \E outcome \in {"ok", "RequestException", "HTTPError", "LZMAError"} :
        IF outcome = "ok" THEN Continue ELSE Raise(outcome)
    /\ UNCHANGED <<db0, db, cli, prior>>
    /\ UNCHANGED <<req, environ, fs0, fs, env, tricks_list, calls, host, warnings, dbops, lf>>

\* prefix.py:416-432 and 433-457: one pass of either loop over the library names
NvLibrary ==
    /\ pc \in {"nv_x32", "nv_x64"}
    /\ LET items == IF iter = <<>> THEN LoopItems(pc, 0) ELSE iter
           item == Head(items)
           wine == IF pc = "nv_x32" THEN "wine" ELSE "wine64"
           dest == IF pc = "nv_x32" THEN "syswow64" ELSE "system32"
           file == Target(req) \o <<"drive_c", "windows", dest, item \o ".dll">>
       IN \E rc \in {0, 1}, member \in BOOLEAN :
            /\ calls' = Append(calls, Invocation(NativeOverrideCmd(wine, item), TRUE, rc))
            /\ IF Raises(pc, rc)
               THEN member /\ fs' = fs /\ Raise("CalledProcessError")
               ELSE IF ~member
               THEN fs' = fs /\ Raise("KeyError")
               ELSE /\ fs' = [Mkdir(fs, SubSeq(file, 1, Len(file) - 1))
                                EXCEPT !.files = @ \cup {file}]
                    /\ IF Tail(items) = <<>>
                       THEN Continue
                       ELSE pc' = pc /\ result' = result /\ iter' = Tail(items)
    /\ UNCHANGED <<db0, db, cli, prior>>
    /\ UNCHANGED <<req, environ, fs0, env, tricks_list, host, warnings, dbops, lf>>

\* prefix.py:458-462
NvCopy ==
    /\ pc = "nv_copy"
    /\ \E present \in BOOLEAN :
        IF present
        THEN /\ fs' = [Mkdir(fs, Target(req) \o <<"drive_c", "windows", "system32">>)
                         EXCEPT !.files = @ \cup
                            {Target(req) \o <<"drive_c", "windows", "system32", f>> :
                                f \in {"nvngx.dll", "_nvngx.dll"}}]
             /\ Continue
        ELSE fs' = fs /\ Raise("FileNotFoundError")
    /\ UNCHANGED <<db0, db, cli, prior>>
    /\ UNCHANGED <<req, environ, fs0, env, tricks_list, calls, host, warnings, dbops, lf>>

\* prefix.py:463-478
NvNgx ==
    /\ pc = "nv_ngx"
    /\ RunStep(NgxCmd)
    /\ UNCHANGED <<db0, db, cli, prior>>
    /\ UNCHANGED <<req, environ, fs0, fs, env, tricks_list, host, warnings, dbops, lf>>

\* the hash seeds the iteration can meet: any before the first iteration of a set,
\* the one already met afterwards
SeedChoices == IF host.seed = -1 THEN 0..MaxHashSeed ELSE {host.seed}

\* the byte orders struct.pack('=...') can meet: the host has one
ByteOrderChoices == IF host.byteorder = "unread" THEN {"little", "big"} ELSE {host.byteorder}

\* prefix.py:480-495: one pass of the loop over the font names
NotoFonts ==
    /\ pc = "noto_fonts"
    /\ \E s \in SeedChoices, rc \in {0, 1} :
        LET items == IF iter = <<>> THEN LoopItems(pc, s) ELSE iter
        IN /\ host' = [host EXCEPT !.seed = s]
           /\ calls' = Append(calls, Invocation(FontSubstituteCmd(Head(items)), TRUE, rc))
           /\ IF Raises(pc, rc) THEN Raise("CalledProcessError")
              ELSE IF Tail(items) = <<>> THEN Continue
              ELSE pc' = pc /\ result' = result /\ iter' = Tail(items)
    /\ UNCHANGED <<db0, db, cli, prior>>
    /\ UNCHANGED <<req, environ, fs0, fs, env, tricks_list, warnings, dbops, lf>>

\* prefix.py:496-530: one pass of the loop over the UI elements
NotoMetrics ==
    /\ pc = "noto_metrics"
    /\ \E s \in SeedChoices, bo \in ByteOrderChoices, rc \in {0, 1} :
        LET items == IF iter = <<>> THEN LoopItems(pc, s) ELSE iter
        IN /\ host' = [host EXCEPT !.seed = s, !.byteorder = bo]
           /\ calls' = Append(calls, Invocation(WindowMetricsCmd(Head(items), bo), TRUE, rc))
           /\ IF Raises(pc, rc) THEN Raise("CalledProcessError")
              ELSE IF Tail(items) = <<>> THEN Continue
              ELSE pc' = pc /\ result' = result /\ iter' = Tail(items)
    /\ UNCHANGED <<db0, db, cli, prior>>
    /\ UNCHANGED <<req, environ, fs0, fs, env, tricks_list, warnings, dbops, lf>>

\* prefix.py:531-536
Asio ==
    /\ pc = "asio"
    /\ \E found \in BOOLEAN, rc \in {0, 1} :
        /\ host' = [host EXCEPT !.register = IF found THEN "found" ELSE "absent"]
        /\ IF found
           THEN
             /\ calls' = Append(calls, Invocation(<<"/usr/bin/wineasio-register">>, TRUE, rc))
             /\ warnings' = warnings
             /\ IF Raises(pc, rc) THEN Raise("CalledProcessError") ELSE Continue
           ELSE
             /\ rc = 0
             /\ calls' = calls
             /\ warnings' = Append(warnings, "Skipping ASIO setup")
             /\ Continue
    /\ UNCHANGED <<db0, db, cli, prior>>
    /\ UNCHANGED <<req, environ, fs0, fs, env, tricks_list, dbops, lf>>

\* the statements of prefix.py:539-578 in the order they are executed
CatalogStatements ==
    <<"connect", "INSERT INTO prefix">>
    \o [i \in 1..3 |-> "INSERT INTO dir"]
    \o [i \in 1..13 |-> "INSERT INTO icon"]
    \o <<"DELETE FROM logging", "commit">>

\* DbOperations with the connection opened before the file is looked for
DbOperationsConnectFirst(present) ==
    IF present THEN CatalogStatements ELSE <<"connect", "commit">>

\* prefix.py:538-539: the database is touched only inside `if db_path.exists()`
DbOperations(present) == IF present THEN CatalogStatements ELSE <<>>

\* prefix.py:537-578
Catalog ==
    /\ pc = "catalog"
    /\ \E present \in BOOLEAN, found \in DbInputs :
        /\ host' = [host EXCEPT !.catalog = IF present THEN "present" ELSE "absent"]
        /\ dbops' = dbops \o DbOperations(present)
        /\ IF present
           THEN db0' = found /\ db' \in CatalogResults(found, req)
           ELSE found = EmptyDb /\ db0' = db0 /\ db' = db
        /\ Continue
    /\ UNCHANGED <<cli, prior>>
    /\ UNCHANGED <<req, environ, fs0, fs, env, tricks_list, calls, warnings, lf>>

\* prefix.py:579
Return ==
    /\ pc = "return"
    /\ pc' = "done"
    /\ result' = "returned"
    /\ UNCHANGED <<db0, db, cli, prior>>
    /\ UNCHANGED <<req, environ, fs0, fs, env, tricks_list, calls, iter, host, warnings,
                   dbops, lf>>

Next ==
    \/ MainCall
    \/ MkdirRoot
    \/ CheckTarget
    \/ BuildEnvStep
    \/ Wineboot
    \/ Wineserver
    \/ RegEdit
    \/ Tmpfs
    \/ Winetricks
    \/ NvInstall
    \/ NvFetch
    \/ NvLibrary
    \/ NvCopy
    \/ NvNgx
    \/ NotoFonts
    \/ NotoMetrics
    \/ Asio
    \/ Catalog
    \/ Return
    \/ MainExit

Spec == Init /\ [][Next]_vars

-----------------------------------------------------------------------------
(* Two runs from the same inputs: create_wine_prefix is called, and when it is done it
   is called again with the same request, in the same environment, on the same host
   and from the same filesystem; the second run meets the same tool discovery and the
   same exit statuses, and any hash seed *)

\* the requests that are run twice
RerunRequests ==
    {[DefaultRequest EXCEPT !.flags = fl, !.tricks = t] :
        fl \in {{}, {"noto_sans"}, {"noto_sans", "asio", "_32bit", "dxva_vaapi"}},
        t \in {<<"dxvk", "corefonts">>}}

InitRerun ==
    /\ req \in RerunRequests
    /\ environ \in {TestEnviron, "WINEDEBUG" :> "-all" @@ TestEnviron}
    /\ fs0 = FreshFs
    /\ fs = FreshFs
    /\ cli = NoCli
    /\ pc = "start"
    /\ Blank

\* the second call: the first run goes on record and every local starts afresh; the
\* host keeps its byte order
Rerun ==
    /\ pc = "done"
    /\ ~prior.set
    /\ prior' = [set |-> TRUE, calls |-> calls, env |-> env, result |-> result,
                 winetricks |-> host.winetricks, register |-> host.register]
    /\ pc' = "start"
    /\ fs' = fs0
    /\ env' = <<>>
    /\ tricks_list' = <<>>
    /\ calls' = <<>>
    /\ iter' = <<>>
    /\ host' = [Unread EXCEPT !.byteorder = host.byteorder]
    /\ warnings' = <<>>
    /\ dbops' = <<>>
    /\ result' = "none"
    /\ db0' = EmptyDb
    /\ db' = EmptyDb
    /\ UNCHANGED <<req, environ, fs0, lf, cli>>

\* which('winetricks') and which('wineasio-register') find what they found in the
\* earlier run, and every invocation exits as the one at its place did
SameOutcomes ==
    prior.set =>
        /\ host.winetricks \in {"unread", prior.winetricks}
           \/ prior.winetricks = "unread"
        /\ host.register \in {"unread", prior.register}
           \/ prior.register = "unread"
        /\ \A i \in 1..Len(calls) : i <= Len(prior.calls) => calls[i].rc = prior.calls[i].rc

NextRerun ==
    \/ Next /\ SameOutcomes'
    \/ Rerun

SpecRerun == InitRerun /\ [][NextRerun]_vars

-----------------------------------------------------------------------------
(* The font descriptor on its own: every face, weight, style and byte order *)

FontInputs ==
    {[face |-> f, weight |-> w, italic |-> i, underline |-> u, strikeout |-> k,
      byteorder |-> b, out |-> NoBytes] :
        f \in DOMAIN FaceOrd, w \in WeightValues, i \in BOOLEAN, u \in BOOLEAN,
        k \in BOOLEAN, b \in {"little", "big"}}

InitFont ==
    /\ lf \in FontInputs
    /\ pc = "font"
    /\ req = DefaultRequest
    /\ environ = TestEnviron
    /\ fs0 = FreshFs
    /\ fs = FreshFs
    /\ env = <<>>
    /\ tricks_list = <<>>
    /\ calls = <<>>
    /\ iter = <<>>
    /\ host = [Unread EXCEPT !.byteorder = lf.byteorder]
    /\ warnings = <<>>
    /\ dbops = <<>>
    /\ result = "none"
    /\ db0 = EmptyDb
    /\ db = EmptyDb
    /\ cli = NoCli
    /\ prior = NoPrior

\* prefix.py:496 and 508-526 for one descriptor
Encode ==
    /\ pc = "font"
    /\ lf.out.status = "none"
    /\ lf' = [lf EXCEPT !.out = EncodeFont(lf.face, lf.weight, lf.italic, lf.underline,
                                          lf.strikeout, lf.byteorder)]
    /\ pc' = "done"
    /\ UNCHANGED <<db0, db, cli, prior>>
    /\ UNCHANGED <<req, environ, fs0, fs, env, tricks_list, calls, iter, host, warnings,
                   dbops, result>>

NextFont == Encode

SpecFont == InitFont /\ [][NextFont]_vars

-----------------------------------------------------------------------------
(* Reading the invocation log *)

\* the argument that follows flag in cmd, or "" when the flag is not there
ArgAfter(cmd, flag) ==
    IF \E i \in 1..(Len(cmd) - 1) : cmd[i] = flag
    THEN cmd[(CHOOSE i \in 1..(Len(cmd) - 1) : cmd[i] = flag) + 1]
    ELSE ""

IsWinetricks(c) == c.cmd[1] = "/usr/bin/winetricks"

IsRegAdd(c) == Len(c.cmd) >= 4 /\ c.cmd[1] \in {"wine", "wine64"} /\ c.cmd[2] = "reg"
               /\ c.cmd[3] = "add"

IsLogPixels(c) == IsRegAdd(c) /\ ArgAfter(c.cmd, "/v") = "LogPixels"

\* the positions of the log that hold a winetricks invocation, a LogPixels edit
WinetricksCalls == {i \in 1..Len(calls) : IsWinetricks(calls[i])}
LogPixelsCalls == {i \in 1..Len(calls) : IsLogPixels(calls[i])}

\* the trick arguments of a winetricks command: what follows the five leading ones
TricksOf(c) == SubSeq(c.cmd, 6, Len(c.cmd))

\* lexicographic order on strings, stated on the first position where they differ
Before(s, t) ==
    \E k \in 0..Len(Ord[s]) :
        /\ k <= Len(Ord[t])
        /\ \A i \in 1..k : Ord[s][i] = Ord[t][i]
        /\ \/ k = Len(Ord[s]) /\ k < Len(Ord[t])
           \/ k < Len(Ord[s]) /\ k < Len(Ord[t]) /\ Ord[s][k + 1] < Ord[t][k + 1]

HasPrefixVd(t) ==
    Len(Ord[t]) >= 3 /\ Ord[t][1] = 118 /\ Ord[t][2] = 100 /\ Ord[t][3] = 61

Reserved(t) ==
    \/ t \in {"win11", "win10", "vista", "win2k3", "win7", "win8", "winxp", "win81",
              "win2k", "win98", "win95"}
    \/ HasPrefixVd(t)

-----------------------------------------------------------------------------
(* C1: for every request whose target already exists when create_wine_prefix is
   called, the call ends with FileExistsError and has issued no sp.run call. *)
C1_ExistingTargetConflict ==
    (pc = "done" /\ Exists(fs0, Target(req)))
        => (result = "FileExistsError" /\ calls = <<>>)

(* C2: a run that ends with the target-exists error leaves the filesystem, the
   catalog database and the invocation log as they were at the call, and the prefix
   root is not created before the existence check has been made. *)
C2_NoEffectBeforeCheck ==
    /\ result = "FileExistsError" => (fs = fs0 /\ dbops = <<>> /\ calls = <<>>)
    /\ pc \in {"start", "check"} => fs = fs0

(* C3: whenever winetricks is invoked, its command starts with the binary, '--force',
   '--country=US', '--unattended', 'prefix=<name>', and the arguments after these are
   in strictly ascending lexicographic order (sorted, no duplicates). *)
C3_TrickArgsStrictlyAscending ==
    \A i \in WinetricksCalls :
        LET c == calls[i].cmd
        IN /\ Len(c) >= 5
           /\ SubSeq(c, 2, 5) = <<"--force", "--country=US", "--unattended",
                                  "prefix=" \o req.prefix_name>>
           /\ \A k \in 6..(Len(c) - 1) : Before(c[k], c[k + 1])

\* winetricks was invoked for a request whose caller list is out of order and names a
\* trick that the sandbox flag adds again
C3_Witness ==
    /\ req.tricks = <<"sandbox", "corefonts">>
    /\ Flag(req, "sandbox")
    /\ \E i \in WinetricksCalls :
          TricksOf(calls[i]) = <<"corefonts", "isolate_home", "sandbox", "win10">>

(* C4 as stated: no caller-supplied trick that is a reserved version keyword or starts
   with 'vd=' is among the winetricks arguments, whatever windows_version and vd are. *)
C4_ReservedTricksNeverPassed ==
    \A i \in WinetricksCalls :
        \A k \in 1..Len(req.tricks) :
            Reserved(req.tricks[k]) => req.tricks[k] \notin ToSet(TricksOf(calls[i]))

(* C4 amended: a reserved version keyword among the winetricks arguments is the one
   windows_version selects, and a 'vd=' argument is there only when vd is not 'off' and
   is 'vd=' followed by vd; so a reserved caller-supplied trick reaches winetricks only
   when it equals the argument that windows_version or vd produces anyway. *)
C4_ReservedArgsComeFromRequest ==
    \A i \in WinetricksCalls :
        \A a \in ToSet(TricksOf(calls[i])) :
            /\ (Reserved(a) /\ ~HasPrefixVd(a))
                  => a = WINETRICKS_VERSION_MAPPING[req.windows_version]
            /\ HasPrefixVd(a) => (req.vd # "off" /\ a = "vd=" \o req.vd)

\* winetricks was invoked for a caller list holding a version keyword other than the
\* selected one and a 'vd=' trick while vd is 'off', and got neither
C4_Witness ==
    /\ req.tricks = <<"win10", "vd=800x600">>
    /\ req.windows_version = "xp"
    /\ req.vd = "off"
    /\ \E i \in WinetricksCalls : TricksOf(calls[i]) = <<"winxp">>

(* C5: once a run is past runtime initialisation and past the DPI step, it has issued
   no LogPixels edit when dpi is 96 and exactly one otherwise, whose '/d' argument is
   the decimal string of dpi; no run issues more than one. *)
C5_DpiEditCount ==
    /\ Cardinality(LogPixelsCalls) <= 1
    /\ req.dpi = 96 => LogPixelsCalls = {}
    /\ \A i \in LogPixelsCalls : ArgAfter(calls[i].cmd, "/d") = Str(req.dpi)
    /\ (Len(calls) >= 2 /\ calls[2].rc = 0 /\ pc # "LogPixels" /\ req.dpi # 96)
          => Cardinality(LogPixelsCalls) = 1

\* a run with a negative DPI went on after its LogPixels edit, which carries "-24"
C5_Witness ==
    /\ req.dpi = -24
    /\ result = "returned"
    /\ \E i \in LogPixelsCalls :
          calls[i].cmd = <<"wine", "reg", "add", "HKCU\\Control Panel\\Desktop", "/t",
                           "REG_DWORD", "/v", "LogPixels", "/d", "-24", "/f">>

-----------------------------------------------------------------------------
(* More readers of the invocation log *)

IsInstaller(c) == c.cmd = <<"setup_vkd3d_proton.sh", "install">>

IsAsioRegister(c) == c.cmd = <<"/usr/bin/wineasio-register">>

IsFontSubstitute(c) ==
    /\ IsRegAdd(c)
    /\ c.cmd[4] = "HKLM\\Software\\Microsoft\\Windows NT\\CurrentVersion\\FontSubstitutes"

IsWindowMetrics(c) ==
    IsRegAdd(c) /\ c.cmd[4] = "HKCU\\Control Panel\\Desktop\\WindowMetrics"

IsNgx(c) ==
    IsRegAdd(c) /\ c.cmd[4] = "HKLM\\Software\\NVIDIA Corporation\\Global\\NGXCore"

IsNativeOverride(c) ==
    /\ IsRegAdd(c)
    /\ c.cmd[4] = "HKCU\\Software\\Wine\\DllOverrides"
    /\ ArgAfter(c.cmd, "/d") = "native"

Is64Bit(c) == c.cmd[1] = "wine64"

IsFailed(c) == c.rc # 0

\* the positions of the log that hold an invocation of each other kind
InstallerCalls == {i \in 1..Len(calls) : IsInstaller(calls[i])}
FontSubstituteCalls == {i \in 1..Len(calls) : IsFontSubstitute(calls[i])}
WindowMetricsCalls == {i \in 1..Len(calls) : IsWindowMetrics(calls[i])}
AsioRegisterCalls == {i \in 1..Len(calls) : IsAsioRegister(calls[i])}
NativeOverrideCalls == {i \in 1..Len(calls) : IsNativeOverride(calls[i])}
NgxCalls == {i \in 1..Len(calls) : IsNgx(calls[i])}

\* the values written by the edits at the given positions
ValuesAt(positions) == {ArgAfter(calls[i].cmd, "/v") : i \in positions}

\* what a completed run owes for the steps that follow winetricks
LaterStepsDone ==
    /\ InstallerCalls # {} <=> Flag(req, "dxvk_nvapi")
    /\ Cardinality(FontSubstituteCalls) = (IF Flag(req, "noto_sans") THEN 26 ELSE 0)
    /\ Cardinality(WindowMetricsCalls) = (IF Flag(req, "noto_sans") THEN 6 ELSE 0)
    /\ Cardinality(AsioRegisterCalls)
          = (IF Flag(req, "asio") /\ host.register = "found" THEN 1 ELSE 0)
    /\ dbops = (IF host.catalog = "present" THEN CatalogStatements ELSE <<>>)

-----------------------------------------------------------------------------
(* C6: a nonzero exit of winetricks does not end the run: no run ends in
   CalledProcessError on it, a warning is logged, a run that then meets no fatal failure returns the
   target having performed every later step the request enables, and any failed
   invocation that the run went on after is a winetricks invocation. *)
C6_WinetricksFailureTolerated ==
    /\ \A i \in WinetricksCalls :
          IsFailed(calls[i]) =>
              /\ \E k \in 1..Len(warnings) : warnings[k] = "Winetricks exit code"
              /\ i = Len(calls) => result # "CalledProcessError"
    /\ \A i \in 1..(Len(calls) - 1) : IsFailed(calls[i]) => IsWinetricks(calls[i])
    /\ result = "returned" =>
          /\ \A i \in 1..Len(calls) : IsFailed(calls[i]) => IsWinetricks(calls[i])
          /\ LaterStepsDone

\* winetricks failed in a run that enables the interop layer, Noto Sans and ASIO, and
\* the run returned after the installer, the 32 font edits, the registration and the
\* catalog insert
C6_Witness ==
    /\ result = "returned"
    /\ \E i \in WinetricksCalls : IsFailed(calls[i])
    /\ {"dxvk_nvapi", "noto_sans", "asio"} \subseteq req.flags
    /\ InstallerCalls # {}
    /\ Cardinality(FontSubstituteCalls) = 26
    /\ Cardinality(WindowMetricsCalls) = 6
    /\ AsioRegisterCalls # {}
    /\ host.catalog = "present"
    /\ dbops = CatalogStatements

(* C7: a nonzero exit of any invocation other than winetricks ends the run at once with
   CalledProcessError: the failed invocation is the last one of the log and was issued
   once, no catalog-database operation has been performed, and nothing is returned. *)
C7_OtherFailureAborts ==
    \A i \in 1..Len(calls) :
        (IsFailed(calls[i]) /\ ~IsWinetricks(calls[i])) =>
            /\ i = Len(calls)
            /\ pc = "done"
            /\ result = "CalledProcessError"
            /\ dbops = <<>>
            /\ \A j \in 1..Len(calls) : calls[j].cmd = calls[i].cmd => j = i

\* the registration tool, the last invocation of a long run, failed and ended it
C7_Witness ==
    /\ result = "CalledProcessError"
    /\ Len(calls) > 40
    /\ IsAsioRegister(calls[Len(calls)])
    /\ IsFailed(calls[Len(calls)])

-----------------------------------------------------------------------------
(* The fixed total order of the invocations, read off the commands themselves *)

\* position of x in a sequence without repetitions, 0 when it is not there
Position(seq, x) ==
    IF \E i \in 1..Len(seq) : seq[i] = x THEN CHOOSE i \in 1..Len(seq) : seq[i] = x ELSE 0

\* the values of the plain registry edits, in the order of the claim
EditOrder == <<"LogPixels", "backend", "EAXEnabled", "ThemeEngine", "AppsUseLightTheme",
               "SystemUsesLightTheme", "Enable", "winemenubuilder.exe", "mscoree",
               "mshtml", "explorer.exe", "services.exe">>

\* the place of an invocation in the total order; 0 for a command that has none
Rank(c) ==
    CASE c.cmd = <<"wineboot", "--init">> -> 1
      [] c.cmd = <<"wineserver", "-w">> -> 2
      [] IsWinetricks(c) -> 15
      [] IsInstaller(c) -> 16
      [] IsNativeOverride(c) /\ ~Is64Bit(c) ->
            IF Position(NVAPI_X32, ArgAfter(c.cmd, "/v")) = 0 THEN 0
            ELSE 16 + Position(NVAPI_X32, ArgAfter(c.cmd, "/v"))
      [] IsNativeOverride(c) /\ Is64Bit(c) ->
            IF Position(NVAPI_X64, ArgAfter(c.cmd, "/v")) = 0 THEN 0
            ELSE 20 + Position(NVAPI_X64, ArgAfter(c.cmd, "/v"))
      [] IsNgx(c) -> 27
      [] IsFontSubstitute(c) -> 28
      [] IsWindowMetrics(c) -> 29
      [] IsAsioRegister(c) -> 30
      [] IsRegAdd(c) /\ ~Is64Bit(c) /\ Position(EditOrder, ArgAfter(c.cmd, "/v")) # 0 ->
            2 + Position(EditOrder, ArgAfter(c.cmd, "/v"))
      [] OTHER -> 0

\* the request enables the step of rank k
Enables(r, k) ==
    CASE k \in {1, 2} -> TRUE
      [] k = 3 -> r.dpi # 96
      [] k = 4 -> Flag(r, "dxva_vaapi")
      [] k = 5 -> Flag(r, "eax")
      [] k = 6 -> Flag(r, "gtk")
      [] k \in {7, 8} -> Flag(r, "winrt_dark")
      [] k = 9 -> Flag(r, "no_associations")
      [] k = 10 -> Flag(r, "no_xdg")
      [] k = 11 -> Flag(r, "no_mono")
      [] k = 12 -> Flag(r, "no_gecko")
      [] k = 13 -> Flag(r, "disable_explorer")
      [] k = 14 -> Flag(r, "disable_services")
      [] k = 15 -> host.winetricks = "found"
      [] k \in 16..20 -> Flag(r, "dxvk_nvapi")
      [] k \in 21..27 -> Flag(r, "dxvk_nvapi") /\ ~Flag(r, "_32bit")
      [] k \in {28, 29} -> Flag(r, "noto_sans")
      [] k = 30 -> Flag(r, "asio") /\ host.register = "found"

(* C8: the invocations of a run follow one fixed total order (wineboot, wineserver, the
   twelve registry edits, winetricks, the installer and its edits, the Noto Sans edits,
   wineasio-register): ranks never decrease along the log and only the Noto Sans edits
   share a rank, each with its own value; the log starts with wineboot then wineserver;
   every invocation before the last has completed with exit status 0 unless it is
   winetricks; and a run that returns has issued exactly the steps its request enables
   (winetricks and wineasio-register when they are also found on PATH). *)
C8_FixedTotalOrder ==
    LET n == Len(calls)
        ranks == [i \in 1..n |-> Rank(calls[i])]
    IN /\ \A i \in 1..n : ranks[i] \in 1..30
       /\ \A i \in 1..(n - 1) :
             \/ ranks[i] < ranks[i + 1]
             \/ ranks[i] = ranks[i + 1] /\ ranks[i] \in {28, 29}
       /\ Cardinality(ValuesAt(FontSubstituteCalls)) = Cardinality(FontSubstituteCalls)
       /\ Cardinality(ValuesAt(WindowMetricsCalls)) = Cardinality(WindowMetricsCalls)
       /\ n >= 1 => ranks[1] = 1
       /\ n >= 2 => ranks[2] = 2
       /\ \A i \in 1..(n - 1) : calls[i].rc = 0 \/ IsWinetricks(calls[i])
       /\ result = "returned" =>
             /\ {ranks[i] : i \in 1..n} = {k \in 1..30 : Enables(req, k)}
             /\ Flag(req, "noto_sans") =>
                   /\ ValuesAt(FontSubstituteCalls) = ToSet(NOTO_FONT_REPLACEMENTS)
                   /\ ValuesAt(WindowMetricsCalls)
                         = {e \o "Font" : e \in ToSet(NOTO_REGISTRY_ENTRIES)}

\* a run with every flag set except _32bit, and a DPI override, returned after issuing
\* a step of every rank
C8_Witness ==
    /\ result = "returned"
    /\ req.flags = FlagNames \ {"_32bit"}
    /\ req.dpi # 96
    /\ \A k \in 1..30 : \E i \in 1..Len(calls) : Rank(calls[i]) = k
    /\ Len(calls) = 60

(* C9: with dxvk_nvapi and _32bit both set, no wine64 invocation is issued (no x64
   override, no NGXCore edit) and no archive member is extracted into system32; with
   dxvk_nvapi set and _32bit not, a run that returns has issued the six x64 overrides
   and the NGXCore edit. *)
C9_No64BitStepsIn32BitPrefix ==
    /\ (Flag(req, "dxvk_nvapi") /\ Flag(req, "_32bit")) =>
          /\ \A i \in 1..Len(calls) : ~Is64Bit(calls[i]) /\ ~IsNgx(calls[i])
          /\ \A f \in fs.files :
                (Len(f) >= 2 /\ f[Len(f) - 1] = "system32")
                    => f[Len(f)] \in {"nvngx.dll", "_nvngx.dll"}
    /\ (Flag(req, "dxvk_nvapi") /\ ~Flag(req, "_32bit") /\ result = "returned") =>
          /\ {ArgAfter(calls[i].cmd, "/v") :
                 i \in {j \in NativeOverrideCalls : Is64Bit(calls[j])}}
                = {"nvcuda", "nvoptix", "nvcuvid", "nvencodeapi64", "nvapi64", "nvofapi64"}
          /\ Cardinality({j \in NativeOverrideCalls : Is64Bit(calls[j])}) = 6
          /\ Cardinality(NgxCalls) = 1
          /\ \A i \in NgxCalls : Is64Bit(calls[i])

\* a 32-bit run with the interop layer returned: the four x32 overrides were issued and
\* their libraries extracted into syswow64
C9_Witness ==
    /\ result = "returned"
    /\ {"dxvk_nvapi", "_32bit"} \subseteq req.flags
    /\ Cardinality(NativeOverrideCalls) = 4
    /\ Cardinality({f \in fs.files : f[Len(f) - 1] = "syswow64"}) = 4

-----------------------------------------------------------------------------
(* Reading a font descriptor *)

\* the signed 32-bit integer held little-endian in bytes b[at + 1] .. b[at + 4]
SignedLE32(b, at) ==
    IF b[at + 4] >= 128
    THEN 0 - ((255 - b[at + 1]) + (255 - b[at + 2]) * 256 + (255 - b[at + 3]) * 65536
              + (255 - b[at + 4]) * 16777216) - 1
    ELSE b[at + 1] + b[at + 2] * 256 + b[at + 3] * 65536 + b[at + 4] * 16777216

\* 'Noto Sans' in UTF-16LE followed by zero bytes, 64 bytes in all
NotoSansField ==
    <<78, 0, 111, 0, 116, 0, 111, 0, 32, 0, 83, 0, 97, 0, 110, 0, 115, 0>>
    \o [i \in 1..46 |-> 0]

\* the descriptor of the claim has been encoded: 'Noto Sans', normal weight, no style
\* flag, on a little-endian host
NotoSansNormalEncoded ==
    /\ pc = "done"
    /\ lf.out.status = "bytes"
    /\ lf.face = "Noto Sans"
    /\ lf.weight = 400
    /\ ~lf.italic /\ ~lf.underline /\ ~lf.strikeout
    /\ lf.byteorder = "little"

\* 92 bytes, the five integers, and the face name field
DescriptorFrame(b) ==
    /\ Len(b) = 92
    /\ <<SignedLE32(b, 0), SignedLE32(b, 4), SignedLE32(b, 8), SignedLE32(b, 12),
         SignedLE32(b, 16)>> = <<-12, 0, 0, 0, 400>>
    /\ SubSeq(b, 29, 92) = NotoSansField

(* C10 as stated: the descriptor is 92 bytes, the first 20 decode as the little-endian
   integers (-12, 0, 0, 0, 400), the last 64 are 'Noto Sans' in UTF-16LE padded with
   zeros, and of the 8 bytes between them a single one is not zero, the charset byte
   with value 1. *)
C10_OnlyCharsetByteSet ==
    NotoSansNormalEncoded =>
        /\ DescriptorFrame(lf.out.bytes)
        /\ \E k \in 21..28 :
              /\ lf.out.bytes[k] = 1
              /\ \A j \in (21..28) \ {k} : lf.out.bytes[j] = 0

(* C10 amended: on a little-endian host the descriptor is 92 bytes, the first 20 decode
   as the little-endian integers (-12, 0, 0, 0, 400), the last 64 are 'Noto Sans' in
   UTF-16LE padded with zeros, and the 8 bytes between them are zero except the byte at
   offset 23 (index 3 of the 8), the charset 1, and the byte at offset 27 (index 7), the
   pitch and family 0x22. *)
C10_DescriptorLayout ==
    NotoSansNormalEncoded =>
        /\ DescriptorFrame(lf.out.bytes)
        /\ SubSeq(lf.out.bytes, 21, 28) = <<0, 0, 0, 1, 0, 0, 0, 34>>

\* the descriptor of the claim, encoded, in full
C10_Witness ==
    /\ NotoSansNormalEncoded
    /\ SubSeq(lf.out.bytes, 1, 28) =
          <<244, 255, 255, 255, 0, 0, 0, 0, 0, 0, 0, 0, 0, 0, 0, 0, 144, 1, 0, 0,
            0, 0, 0, 1, 0, 0, 0, 34>>

-----------------------------------------------------------------------------
(* C11: of two runs from the same request, environment, host and filesystem that meet
   the same tool discovery and the same exit statuses, the second issues, place by
   place, the invocation the first issued (same command, same use of the overlay, same
   exit status) except that two font-substitution edits, or two UI-element font edits,
   may stand at one place with different values; both build the same overlay; and when
   both return they have issued the same number and the same set of invocations. *)
C11_RerunsIssueSameInvocations ==
    prior.set =>
        /\ \A i \in 1..Len(calls) :
              i <= Len(prior.calls) =>
                 \/ calls[i] = prior.calls[i]
                 \/ /\ IsFontSubstitute(calls[i]) /\ IsFontSubstitute(prior.calls[i])
                    /\ calls[i].env = prior.calls[i].env
                 \/ /\ IsWindowMetrics(calls[i]) /\ IsWindowMetrics(prior.calls[i])
                    /\ calls[i].env = prior.calls[i].env
        /\ (DOMAIN env # {} /\ DOMAIN prior.env # {}) => env = prior.env
        /\ (result = "returned" /\ prior.result = "returned") =>
              /\ Len(calls) = Len(prior.calls)
              /\ ToSet(calls) = ToSet(prior.calls)

\* two runs with Noto Sans and winetricks both returned, having visited the fonts in
\* different orders
C11_Witness ==
    /\ prior.set
    /\ result = "returned" /\ prior.result = "returned"
    /\ Flag(req, "noto_sans")
    /\ WinetricksCalls # {}
    /\ Len(calls) >= 35
    /\ calls # prior.calls
    /\ ToSet(calls) = ToSet(prior.calls)

-----------------------------------------------------------------------------
(* C12: once the run has found the catalog database file absent, it has performed no
   database operation and left the catalog as it was, and it is at its return
   statement or has returned; so a run that meets no failure returns the target
   without touching the database. *)
C12_AbsentCatalogUntouched ==
    host.catalog = "absent" =>
        /\ dbops = <<>>
        /\ db = db0
        /\ \/ pc = "return"
           \/ pc = "done" /\ result = "returned"

\* a run that issued its invocations, found no catalog and returned
C12_Witness ==
    /\ pc = "done" /\ result = "returned"
    /\ host.catalog = "absent"
    /\ Len(calls) >= 2
    /\ dbops = <<>>

-----------------------------------------------------------------------------
(* C13: winetricks has been invoked exactly once when the run found it on PATH and not
   at all when it did not, and a run that did not find it goes on: with none of the
   later steps that can fail requested, it returns.  wineasio-register has been invoked
   exactly once when asio was requested and the run found it on PATH, and not at all
   otherwise; a run that did not find it has logged the warning, issued nothing for
   the step, and is on its way to the return statement or has returned. *)
C13_OptionalToolsRunOnlyWhenFound ==
    /\ host.winetricks = "found" => Cardinality(WinetricksCalls) = 1
    /\ host.winetricks # "found" => WinetricksCalls = {}
    /\ ( /\ host.winetricks = "absent"
         /\ pc = "done"
         /\ req.flags \cap {"dxvk_nvapi", "noto_sans", "asio"} = {} )
       => result = "returned"
    /\ host.register = "found" => Flag(req, "asio") /\ Cardinality(AsioRegisterCalls) = 1
    /\ host.register # "found" => AsioRegisterCalls = {}
    /\ ~Flag(req, "asio") => host.register = "unread"
    /\ host.register = "absent" =>
          /\ Flag(req, "asio")
          /\ \E i \in 1..Len(warnings) : warnings[i] = "Skipping ASIO setup"
          /\ \/ pc \in {"catalog", "return"}
             \/ pc = "done" /\ result = "returned"
    /\ host.register # "absent" =>
          \A i \in 1..Len(warnings) : warnings[i] # "Skipping ASIO setup"

\* a run that found neither tool, with tricks and asio requested, and returned
C13_Witness ==
    /\ pc = "done" /\ result = "returned"
    /\ host.winetricks = "absent" /\ host.register = "absent"
    /\ Flag(req, "asio")
    /\ req.tricks # <<>>
    /\ warnings # <<>>
    /\ Len(calls) >= 2

-----------------------------------------------------------------------------
(* C14: when main has ended, one of three things has happened: create_wine_prefix
   returned and main exited with status 0 having printed the two export statements;
   or create_wine_prefix raised FileExistsError and main aborted with a nonzero status;
   or an invocation failed and main aborted with a nonzero status having printed what
   the failing command wrote on its standard error and standard output.  In the last
   two cases no export statement was printed. *)
C14_MainThreeOutcomes ==
    (cli.entered /\ cli.status # -1) =>
        \/ /\ result = "returned"
           /\ cli.status = 0
           /\ cli.stdout = ExportLines(req)
        \/ /\ result = "FileExistsError"
           /\ cli.status # 0
           /\ cli.stdout = <<>>
           /\ cli.stderr[Len(cli.stderr)] = "Aborted!"
        \/ /\ result = "CalledProcessError"
           /\ cli.status # 0
           /\ cli.stdout = <<>>
           /\ cli.stderr[Len(cli.stderr)] = "Aborted!"
           /\ \E i \in 1..Len(cli.stderr) :
                 cli.stderr[i] = "STDERR: " \o WrittenStderr(calls[Len(calls)])
           /\ \E i \in 1..Len(cli.stderr) :
                 cli.stderr[i] = "STDOUT: " \o WrittenStdout(calls[Len(calls)])

-----------------------------------------------------------------------------
(* C15: for every feature toggle of the request there is a command-line flag that sets
   it: main, started with that flag alone, calls create_wine_prefix with the toggle
   on; and so the run of some command line reaches the wineasio-register step. *)
C15_EveryToggleHasAFlag ==
    /\ \A f \in FlagNames :
          \E o \in DOMAIN CliFlagOptions :
             f \in MainRequest(ClickParse([NoArgv EXCEPT !.options = {o}])).flags
    /\ (cli.entered /\ pc = "done" /\ result = "returned"
          /\ cli.argv.options = DOMAIN CliFlagOptions)
       => host.register # "unread"

-----------------------------------------------------------------------------
(* C16: the overlay, once built, is the one built from the request and the ambient
   environment and stays so; and every invocation issued so far was executed in that
   overlay, hence with WINEPREFIX equal to the target path. *)
C16_EveryInvocationUsesOverlay ==
    /\ DOMAIN env # {} => env = BuildEnv(environ, req)
    /\ \A i \in 1..Len(calls) :
          /\ RunEnvironment(calls[i]) = BuildEnv(environ, req)
          /\ RunEnvironment(calls[i])["WINEPREFIX"] = PathStr(Target(req))

-----------------------------------------------------------------------------
(* C17, as stated: once the overlay is built, WINEPREFIX is the target path whatever
   the ambient WINEPREFIX; WINEARCH is present iff 32-bit is requested; WINEDEBUG is
   the ambient value if there is one, else 'fixme-all'; WINEESYNC is present iff it is
   set in the ambient environment, and then has the ambient value. *)
C17_OverlayContents ==
    DOMAIN env # {} =>
        /\ env["WINEPREFIX"] = PathStr(Target(req))
        /\ "WINEARCH" \in DOMAIN env <=> Flag(req, "_32bit")
        /\ env["WINEDEBUG"] = (IF "WINEDEBUG" \in DOMAIN environ THEN environ["WINEDEBUG"]
                               ELSE "fixme-all")
        /\ "WINEESYNC" \in DOMAIN env <=> "WINEESYNC" \in DOMAIN environ
        /\ "WINEESYNC" \in DOMAIN env => env["WINEESYNC"] = environ["WINEESYNC"]

(* C17, amended: as above, except that WINEESYNC is present in the overlay iff the
   ambient environment sets it to a non-empty value. *)
C17_OverlayContentsNonEmptyEsync ==
    DOMAIN env # {} =>
        /\ env["WINEPREFIX"] = PathStr(Target(req))
        /\ "WINEARCH" \in DOMAIN env <=> Flag(req, "_32bit")
        /\ env["WINEDEBUG"] = (IF "WINEDEBUG" \in DOMAIN environ THEN environ["WINEDEBUG"]
                               ELSE "fixme-all")
        /\ "WINEESYNC" \in DOMAIN env
              <=> ("WINEESYNC" \in DOMAIN environ /\ environ["WINEESYNC"] # "")
        /\ "WINEESYNC" \in DOMAIN env => env["WINEESYNC"] = environ["WINEESYNC"]

\* an overlay built for a 32-bit request in an ambient environment that sets WINEPREFIX
\* to another path, WINEDEBUG and WINEESYNC, and used by an invocation
C17_Witness ==
    /\ DOMAIN env # {}
    /\ Flag(req, "_32bit")
    /\ {"WINEPREFIX", "WINEDEBUG", "WINEESYNC"} \subseteq DOMAIN environ
    /\ environ["WINEPREFIX"] # PathStr(Target(req))
    /\ "WINEESYNC" \in DOMAIN env
    /\ calls # <<>>

-----------------------------------------------------------------------------
(* The hex string of the 92-byte descriptor of 'Noto Sans' with the given weight, written
   out digit by digit: height -12, three zero integers, the weight, the eight byte
   fields, the face name field *)
DescriptorHex(weight, byteorder) ==
    LET zero == "00000000"
        height == IF byteorder = "little" THEN "f4ffffff" ELSE "fffffff4"
        w == CASE weight = 700 /\ byteorder = "little" -> "bc020000"
               [] weight = 700 /\ byteorder = "big" -> "000002bc"
               [] weight = 400 /\ byteorder = "little" -> "90010000"
               [] weight = 400 /\ byteorder = "big" -> "00000190"
        face == "4e006f0074006f002000530061006e007300"
        pad == "0000000000000000000000000000000000000000000000"
    IN height \o zero \o zero \o zero \o w \o "0000000100000022" \o face \o pad \o pad

(* C18: a run with noto_sans that returned has issued, for each of the 26 names of the
   substitution set, exactly one FontSubstitutes edit of that name, with the value
   'Noto Sans', and no other FontSubstitutes edit; and for each of Caption, Icon, Menu,
   Message, SmCaption and Status exactly one WindowMetrics REG_BINARY edit of
   '<Entry>Font', and no other, whose value is the 184 hex digits of the 92-byte
   descriptor with weight 700 for Caption and 400 for the others.  A run without
   noto_sans issues none of these edits. *)
C18_NotoSansEdits ==
    /\ ~Flag(req, "noto_sans") => FontSubstituteCalls = {} /\ WindowMetricsCalls = {}
    /\ (Flag(req, "noto_sans") /\ result = "returned") =>
          /\ Cardinality(ToSet(NOTO_FONT_REPLACEMENTS)) = 26
          /\ Cardinality(FontSubstituteCalls) = 26
          /\ \A name \in ToSet(NOTO_FONT_REPLACEMENTS) :
                \E i \in FontSubstituteCalls :
                   /\ ArgAfter(calls[i].cmd, "/v") = name
                   /\ ArgAfter(calls[i].cmd, "/t") = "REG_SZ"
                   /\ ArgAfter(calls[i].cmd, "/d") = "Noto Sans"
          /\ Cardinality(WindowMetricsCalls) = 6
          /\ \A entry \in {"Caption", "Icon", "Menu", "Message", "SmCaption", "Status"} :
                \E i \in WindowMetricsCalls :
                   /\ ArgAfter(calls[i].cmd, "/v") = entry \o "Font"
                   /\ ArgAfter(calls[i].cmd, "/t") = "REG_BINARY"
                   /\ Len(ArgAfter(calls[i].cmd, "/d")) = 2 * 92
                   /\ ArgAfter(calls[i].cmd, "/d")
                         = DescriptorHex(IF entry = "Caption" THEN 700 ELSE 400,
                                         host.byteorder)

\* a run with noto_sans returned, having written the bold caption font
C18_Witness ==
    /\ result = "returned"
    /\ Flag(req, "noto_sans")
    /\ host.byteorder = "little"
    /\ \E i \in WindowMetricsCalls :
          /\ ArgAfter(calls[i].cmd, "/v") = "CaptionFont"
          /\ ArgAfter(calls[i].cmd, "/d") = DescriptorHex(700, "little")
    /\ \E i \in FontSubstituteCalls : ArgAfter(calls[i].cmd, "/v") = "Tahoma"

-----------------------------------------------------------------------------
(* C19: once the run has found the catalog database present, the database holds, beyond
   the rows it held before: one prefix row, with the next prefix id, the prefix name,
   the target path, 'D:', the run template and version id 1; three dir rows named
   system, autostart and import with that prefix id; and thirteen icon rows with that
   prefix id whose dir_id is the id of the one dir row named system with that prefix
   id.  No logging row with that prefix id remains, and the other logging rows are
   kept.  The statements were issued when every invocation of the run had completed:
   the run is at its return statement or has returned, and a run that has not found
   the database present has issued no statement. *)
C19_CatalogRows ==
    /\ host.catalog # "present" => dbops = <<>> /\ db = db0
    /\ host.catalog = "present" =>
          LET prefix_id == NextId(db0.prefix)
              newDirs == db.dir \ db0.dir
              newIcons == db.icon \ db0.icon
              systemDirs == {r \in db.dir : r.name = "system" /\ r.prefix_id = prefix_id}
          IN /\ db0.prefix \subseteq db.prefix
             /\ db.prefix \ db0.prefix
                   = {[id |-> prefix_id, name |-> req.prefix_name,
                       path |-> PathStr(Target(req)), mountpoint_windrive |-> "D:",
                       run_string |-> RunTemplate, version_id |-> 1]}
             /\ db0.dir \subseteq db.dir
             /\ Cardinality(newDirs) = 3
             /\ {r.name : r \in newDirs} = {"system", "autostart", "import"}
             /\ \A r \in newDirs : r.prefix_id = prefix_id
             /\ Cardinality({r.id : r \in db.dir}) = Cardinality(db.dir)
             /\ Cardinality(systemDirs) = 1
             /\ db0.icon \subseteq db.icon
             /\ Cardinality(newIcons) = 13
             /\ Cardinality({r.id : r \in db.icon}) = Cardinality(db.icon)
             /\ \A r \in newIcons :
                   /\ r.prefix_id = prefix_id
                   /\ \E sys \in systemDirs : r.dir_id = sys.id
             /\ \A r \in db.logging : r.prefix_id # prefix_id
             /\ db.logging = {r \in db0.logging : r.prefix_id # prefix_id}
             /\ dbops = CatalogStatements
             /\ \/ pc = "return"
                \/ pc = "done" /\ result = "returned"

\* a run that issued its invocations and then entered itself into a catalog in use,
\* which held log rows under the id the new prefix received
C19_Witness ==
    /\ pc = "done" /\ result = "returned"
    /\ host.catalog = "present"
    /\ db0.prefix # {}
    /\ \E r \in db0.logging : r.prefix_id = NextId(db0.prefix)
    /\ Cardinality(db.icon) = 14
    /\ Len(calls) >= 2

-----------------------------------------------------------------------------
(* C20: the overlay built for a request with _32bit has WINEARCH, with the value
   'win32', whatever the ambient environment holds. *)
C20_Win32WhateverAmbient ==
    (DOMAIN env # {} /\ Flag(req, "_32bit")) =>
        /\ "WINEARCH" \in DOMAIN env
        /\ env["WINEARCH"] = "win32"

=============================================================================
